---- MODULE Spec2Model ----
(***************************************************************************)
(* A model of the monty interpreter: its datetime value types and their    *)
(* arithmetic (crates/monty/src/types, bytecode/vm/binary.rs), the host    *)
(* value bridge, and the statement-level frame executor (run_frame.rs).    *)
(*                                                                         *)
(* Wide integers.  The program computes durations as i128 microsecond      *)
(* counts and chrono keeps i64 seconds.  The model checker's integers are  *)
(* 32 bits wide, so a microsecond count is held in three limbs             *)
(*     [d, s, u]  =  d * DAY_MICROSECONDS + s * 1000000 + u                *)
(* with 0 <= s < DAY_SECONDS and 0 <= u < MICROS_PER_SECOND, and a count   *)
(* of seconds in the two limbs [d, s].  All limb arithmetic carries.       *)
(***************************************************************************)
EXTENDS Integers, Sequences, FiniteSets, TLC

VARIABLES
    x,          \* temporal machine: left operand / accumulator
    y,          \* temporal machine: right operand
    exact,      \* temporal machine: exact microsecond total of x when x is a timedelta
    res,        \* temporal machine: outcome of the last operation
    nops,       \* temporal machine: operations executed so far
    input,      \* bridge: the host value passed to run as input x
    phase,      \* bridge: position of run: idle, convert, execute, output, returned, failed
    namespace,  \* bridge: the internal value bound to x
    executed,   \* bridge: number of program statements executed
    output,     \* bridge: the host value run returned
    failure,    \* bridge: the error run returned
    program,    \* frame: the statement list being run
    mach,       \* frame: namespaces, heap, stash, printed output and snapshot tracker
    fphase,     \* frame: idle, suspended, done or failed
    outcome,    \* frame: what run or resume returned to the host
    reference,  \* frame: outcome of the uninterrupted execution with the same reply
    nsusp,      \* frame: number of suspensions so far
    inloop,     \* frame: some suspension happened inside a for body
    self_type,  \* type check: the type of the value
    other_type, \* type check: the type it is tested against
    instance,   \* type check: result of is_instance_of, "none" before the call
    interner,   \* interner: the InternerBuilder
    issued,     \* interner: the (id, string) pairs intern has returned
    issued_bytes, \* interner: the (id, bytes) pairs intern_bytes has returned
    last_intern, \* interner: the last call and what the table was before it
    method,     \* host effects: the classmethod called, with its arguments
    effect,     \* host effects: what the classmethod returned
    vmop,       \* VM: the operation with the stack and heap it started from
    vm          \* VM: operand stack and heap after the operation

tvars == <<x, y, exact, res, nops>>
bvars == <<input, phase, namespace, executed, output, failure>>
fvars == <<program, mach, fphase, outcome, reference, nsusp, inloop>>
yvars == <<self_type, other_type, instance>>
ivars == <<interner, issued, issued_bytes, last_intern>>
ovars == <<method, effect>>
mvars == <<vmop, vm>>
pvars == <<yvars, ivars, ovars, mvars>>

vars == <<x, y, exact, res, nops, input, phase, namespace, executed, output, failure,
          program, mach, fphase, outcome, reference, nsusp, inloop,
          self_type, other_type, instance, interner, issued, issued_bytes, last_intern,
          method, effect, vmop, vm>>

\* ---------------------------------------------------------------------
\* Program constants
\* ---------------------------------------------------------------------
MIN_TIMEDELTA_DAYS == -999999999
MAX_TIMEDELTA_DAYS == 999999999
DAY_SECONDS == 86400
MICROS_PER_SECOND == 1000000

\* Bound of the model: number of arithmetic operations in one run.
MaxOps == 2

\* ---------------------------------------------------------------------
\* Results and options
\* ---------------------------------------------------------------------
None == [some |-> FALSE, v |-> 0]
Some(v) == [some |-> TRUE, v |-> v]

\* ---------------------------------------------------------------------
\* i128 microsecond counts in limbs
\* ---------------------------------------------------------------------
\* days * DAY_MICROSECONDS + seconds * 1_000_000 + microseconds, for any
\* signed seconds and microseconds: the carries are propagated upwards.
Micros(days, seconds, microseconds) ==
    LET s1 == seconds + (microseconds \div MICROS_PER_SECOND)
    IN [d |-> days + (s1 \div DAY_SECONDS),
        s |-> s1 % DAY_SECONDS,
        u |-> microseconds % MICROS_PER_SECOND]

MicrosAdd(a, b) == Micros(a.d + b.d, a.s + b.s, a.u + b.u)

MicrosSub(a, b) == Micros(a.d - b.d, a.s - b.s, a.u - b.u)

\* Rust's `/` on integers truncates towards zero.
TruncDiv(a, b) == IF a >= 0 THEN a \div b ELSE -((-a) \div b)

\* ---------------------------------------------------------------------
\* timedelta  (types/timedelta.rs)
\* ---------------------------------------------------------------------
Ok(v) == [ok |-> TRUE, v |-> v, exc |-> "", msg |-> "", n |-> 0]
Err(exc, msg, n) == [ok |-> FALSE, v |-> 0, exc |-> exc, msg |-> msg, n |-> n]

DaysMsg == "days=<n>; must have magnitude <= 999999999"

\* chrono::TimeDelta::num_seconds: whole seconds, rounded towards zero.
num_seconds(delta) ==
    IF delta.secs.d < 0 /\ delta.nanos > 0
    THEN LET t == Micros(delta.secs.d, delta.secs.s + 1, 0) IN [d |-> t.d, s |-> t.s]
    ELSE delta.secs

\* chrono::TimeDelta::subsec_nanos: the fraction, with the sign of the duration.
subsec_nanos(delta) ==
    IF delta.secs.d < 0 /\ delta.nanos > 0 THEN delta.nanos - 1000000000 ELSE delta.nanos

\* Mutation of total_microseconds: the fraction is read without its sign.
total_microseconds_unsigned(delta) ==
    LET seconds == num_seconds(delta)
    IN Micros(seconds.d, seconds.s, delta.nanos \div 1000)

total_microseconds(delta) ==
    LET seconds == num_seconds(delta)
        microseconds == TruncDiv(subsec_nanos(delta), 1000)
    IN Micros(seconds.d, seconds.s, microseconds)

components(delta) ==
    LET total == total_microseconds(delta)
        days == total.d
        rem == [s |-> total.s, u |-> total.u]
    IN <<days, rem.s, rem.u>>

from_total_microseconds(total) ==
    LET days == total.d
    IN IF days < MIN_TIMEDELTA_DAYS \/ days > MAX_TIMEDELTA_DAYS
       THEN Err("OverflowError", DaysMsg, days)
       ELSE Ok([secs |-> [d |-> total.d, s |-> total.s], nanos |-> total.u * 1000])

\* Variant that normalizes out-of-range seconds and microseconds instead of
\* rejecting them.
timedelta_new_normalizing(days, seconds, microseconds) ==
    from_total_microseconds(Micros(days, seconds, microseconds))

timedelta_new(days, seconds, microseconds) ==
    IF days < MIN_TIMEDELTA_DAYS \/ days > MAX_TIMEDELTA_DAYS
    THEN Err("OverflowError", DaysMsg, days)
    ELSE IF ~(seconds \in 0..(DAY_SECONDS - 1)) \/ ~(microseconds \in 0..(MICROS_PER_SECOND - 1))
    THEN Err("ValueError", "timedelta normalized fields out of range", 0)
    ELSE from_total_microseconds(Micros(days, seconds, microseconds))

timedelta_init(days, seconds, microseconds) ==
    from_total_microseconds(Micros(days, seconds, microseconds))

TimeDelta_py_add(self, other) ==
    LET total == MicrosAdd(total_microseconds(self), total_microseconds(other))
        result == from_total_microseconds(total)
    IN IF result.ok THEN Some(result.v) ELSE None

TimeDelta_py_sub(self, other) ==
    LET total == MicrosSub(total_microseconds(self), total_microseconds(other))
        result == from_total_microseconds(total)
    IN IF result.ok THEN Some(result.v) ELSE None

TimeDelta_py_eq(self, other) == total_microseconds(self) = total_microseconds(other)

\* ---------------------------------------------------------------------
\* Proleptic Gregorian calendar (chrono::NaiveDate as used by types/date.rs)
\* ---------------------------------------------------------------------
is_leap_year(year) == (year % 4 = 0) /\ ((year % 100 # 0) \/ (year % 400 = 0))

days_in_month(year, month) ==
    IF month = 2 THEN (IF is_leap_year(year) THEN 29 ELSE 28)
    ELSE IF month \in {4, 6, 9, 11} THEN 30 ELSE 31

RECURSIVE days_before_month(_, _)
days_before_month(year, month) ==
    IF month <= 1 THEN 0
    ELSE days_before_month(year, month - 1) + days_in_month(year, month - 1)

days_before_year(year) ==
    LET p == year - 1
    IN p * 365 + (p \div 4) - (p \div 100) + (p \div 400)

\* NaiveDate::num_days_from_ce of a valid civil date: 1 is 0001-01-01.
num_days_from_ce(year, month, day) ==
    days_before_year(year) + days_before_month(year, month) + day

RECURSIVE month_of_yday(_, _, _)
month_of_yday(year, month, yday) ==
    IF yday <= days_in_month(year, month) THEN <<month, yday>>
    ELSE month_of_yday(year, month + 1, yday - days_in_month(year, month))

\* NaiveDate::from_num_days_from_ce_opt followed by year(), month(), day().
civil_from_days(ordinal) ==
    LET n == ordinal - 1
        n400 == n \div 146097
        r400 == n % 146097
        n100 == IF r400 \div 36524 > 3 THEN 3 ELSE r400 \div 36524
        r100 == r400 - n100 * 36524
        n4 == r100 \div 1461
        r4 == r100 % 1461
        n1 == IF r4 \div 365 > 3 THEN 3 ELSE r4 \div 365
        year == n400 * 400 + n100 * 100 + n4 * 4 + n1 + 1
        md == month_of_yday(year, 1, r4 - n1 * 365 + 1)
    IN <<year, md[1], md[2]>>

\* chrono's NaiveDate covers the years -262143 ..= 262142.
chrono_date_in_range(ordinal) ==
    /\ ordinal >= days_before_year(-262143) + 1
    /\ ordinal <= days_before_year(262143)

year_in_python_range(year) == year \in 1..9999

\* ---------------------------------------------------------------------
\* date  (types/date.rs)
\* ---------------------------------------------------------------------
Date_from_ymd(year, month, day) ==
    IF ~(year \in 1..9999) THEN Err("ValueError", "year <n> is out of range", year)
    ELSE IF ~(month \in 1..12) THEN Err("ValueError", "month must be in 1..12", 0)
    ELSE IF day < 0 THEN Err("ValueError", "day is out of range for month", 0)
    ELSE IF ~(day \in 1..days_in_month(year, month))
    THEN Err("ValueError", "day is out of range for month", 0)
    ELSE Ok(num_days_from_ce(year, month, day))

Date_from_ordinal(ordinal) ==
    IF ~chrono_date_in_range(ordinal) THEN Err("OverflowError", "date value out of range", 0)
    ELSE IF ~(civil_from_days(ordinal)[1] \in 1..9999)
    THEN Err("OverflowError", "date value out of range", 0)
    ELSE Ok(ordinal)

Date_to_ymd(ordinal) == civil_from_days(ordinal)

\* `date + timedelta`: only the day component of the timedelta is used.  The
\* saturating i32 addition cannot saturate: |ordinal| + |days| < 2^31.
Date_py_add(ordinal, delta) ==
    LET new_ordinal == ordinal + components(delta)[1]
        r == Date_from_ordinal(new_ordinal)
    IN IF r.ok THEN Some(r.v) ELSE None

Date_py_sub(ordinal, delta) ==
    LET new_ordinal == ordinal - components(delta)[1]
        r == Date_from_ordinal(new_ordinal)
    IN IF r.ok THEN Some(r.v) ELSE None

Date_py_sub_date(ordinal, other) ==
    LET r == from_total_microseconds(Micros(ordinal - other, 0, 0))
    IN IF r.ok THEN Some(r.v) ELSE None

\* ---------------------------------------------------------------------
\* timezone  (types/timezone.rs)
\* ---------------------------------------------------------------------
MIN_TIMEZONE_OFFSET_SECONDS == -86399
MAX_TIMEZONE_OFFSET_SECONDS == 86399

NoName == [some |-> FALSE, v |-> ""]
NoTz == [some |-> FALSE, offset_seconds |-> 0, name |-> NoName]
SomeTz(offset_seconds, name) == [some |-> TRUE, offset_seconds |-> offset_seconds, name |-> name]

TimeZone_new(offset_seconds, name) ==
    IF offset_seconds < MIN_TIMEZONE_OFFSET_SECONDS \/ offset_seconds > MAX_TIMEZONE_OFFSET_SECONDS
    THEN Err("ValueError", "offset must be a timedelta strictly between -timedelta(hours=24) and timedelta(hours=24)", offset_seconds)
    ELSE Ok(SomeTz(offset_seconds, name))

\* Equality that also compares the display name.
TimeZone_eq_with_name(self, other) ==
    self.offset_seconds = other.offset_seconds /\ self.name = other.name

TimeZone_py_eq(self, other) == self.offset_seconds = other.offset_seconds

\* impl Hash for TimeZone: the values written to the hasher, in order.
TimeZone_hash(self) == <<self.offset_seconds>>

\* ---------------------------------------------------------------------
\* datetime  (types/datetime.rs)
\* A NaiveDateTime is the microsecond count [d, s, u] since 0000-12-31T00:00:
\* d is the day ordinal, s the second of the day, u the microsecond.
\* ---------------------------------------------------------------------
ZeroNaive == [d |-> 0, s |-> 0, u |-> 0]
NoNaive == [some |-> FALSE, v |-> ZeroNaive]
NoDateTime == [some |-> FALSE, v |-> [naive |-> ZeroNaive, offset_seconds |-> None, timezone_name |-> NoName]]

\* chrono::FixedOffset::east_opt
east_opt(offset_seconds) == offset_seconds > -DAY_SECONDS /\ offset_seconds < DAY_SECONDS

\* The microsecond count of a chrono duration [secs, nanos].
chrono_micros(delta) == Micros(delta.secs.d, delta.secs.s, delta.nanos \div 1000)

\* NaiveDateTime::checked_add_signed / checked_sub_signed: None outside chrono's range.
checked_add_signed(naive, delta) ==
    LET r == MicrosAdd(naive, chrono_micros(delta))
    IN IF chrono_date_in_range(r.d) THEN Some(r) ELSE NoNaive

checked_sub_signed(naive, delta) ==
    LET r == MicrosSub(naive, chrono_micros(delta))
    IN IF chrono_date_in_range(r.d) THEN Some(r) ELSE NoNaive

\* ChronoTimeDelta::try_seconds(offset_seconds)
try_seconds(seconds) ==
    LET t == Micros(0, seconds, 0) IN [secs |-> [d |-> t.d, s |-> t.s], nanos |-> 0]

is_aware(datetime) == datetime.offset_seconds.some

to_utc_naive(datetime) ==
    IF ~datetime.offset_seconds.some THEN NoNaive
    ELSE checked_sub_signed(datetime.naive, try_seconds(datetime.offset_seconds.v))

from_local_naive(naive) ==
    IF ~year_in_python_range(civil_from_days(naive.d)[1]) THEN NoDateTime
    ELSE Some([naive |-> naive, offset_seconds |-> None, timezone_name |-> NoName])

\* Variant that rebuilds the datetime without its display name.
from_utc_naive_without_name(utc_naive, offset_seconds, timezone_name) ==
    IF ~east_opt(offset_seconds) THEN NoDateTime
    ELSE LET local == checked_add_signed(utc_naive, try_seconds(offset_seconds))
         IN IF ~local.some THEN NoDateTime
            ELSE IF ~year_in_python_range(civil_from_days(local.v.d)[1]) THEN NoDateTime
            ELSE Some([naive |-> local.v, offset_seconds |-> Some(offset_seconds),
                       timezone_name |-> NoName])

from_utc_naive_with_timezone_parts(utc_naive, offset_seconds, timezone_name) ==
    IF ~east_opt(offset_seconds) THEN NoDateTime
    ELSE LET local == checked_add_signed(utc_naive, try_seconds(offset_seconds))
         IN IF ~local.some THEN NoDateTime
            ELSE IF ~year_in_python_range(civil_from_days(local.v.d)[1]) THEN NoDateTime
            ELSE Some([naive |-> local.v, offset_seconds |-> Some(offset_seconds),
                       timezone_name |-> timezone_name])

from_components(year, month, day, hour, minute, second, microsecond, tzinfo) ==
    IF ~(hour \in 0..23) THEN Err("ValueError", "hour must be in 0..23", 0)
    ELSE IF ~(minute \in 0..59) THEN Err("ValueError", "minute must be in 0..59", 0)
    ELSE IF ~(second \in 0..59) THEN Err("ValueError", "second must be in 0..59", 0)
    ELSE IF ~(microsecond \in 0..999999) THEN Err("ValueError", "microsecond must be in 0..999999", 0)
    ELSE LET date_value == Date_from_ymd(year, month, day)
         IN IF ~date_value.ok THEN date_value
            ELSE IF tzinfo.some /\ ~east_opt(tzinfo.offset_seconds)
            THEN Err("ValueError", "timezone offset out of range", 0)
            ELSE LET datetime == [naive |-> [d |-> date_value.v,
                                             s |-> hour * 3600 + minute * 60 + second,
                                             u |-> microsecond],
                                  offset_seconds |-> IF tzinfo.some THEN Some(tzinfo.offset_seconds) ELSE None,
                                  timezone_name |-> IF tzinfo.some THEN tzinfo.name ELSE NoName]
                     utc == to_utc_naive(datetime)
                 IN IF tzinfo.some /\ ~utc.some
                    THEN Err("OverflowError", "date value out of range", 0)
                    ELSE IF tzinfo.some
                            /\ ~from_utc_naive_with_timezone_parts(utc.v, tzinfo.offset_seconds, NoName).some
                    THEN Err("OverflowError", "date value out of range", 0)
                    ELSE Ok(datetime)

\* Variant that reports the UTC wall clock of an aware datetime.
to_components_utc(datetime) ==
    LET naive == IF is_aware(datetime) THEN to_utc_naive(datetime).v ELSE datetime.naive
        ymd == civil_from_days(naive.d)
    IN Some(<<ymd[1], ymd[2], ymd[3], naive.s \div 3600, (naive.s % 3600) \div 60, naive.s % 60,
              naive.u>>)

to_components(datetime) ==
    LET ymd == civil_from_days(datetime.naive.d)
        sod == datetime.naive.s
    IN IF ~year_in_python_range(ymd[1]) THEN [some |-> FALSE, v |-> <<0, 0, 0, 0, 0, 0, 0>>]
       ELSE Some(<<ymd[1], ymd[2], ymd[3], sod \div 3600, (sod % 3600) \div 60, sod % 60,
                   datetime.naive.u>>)

DateTime_py_add(datetime, delta) ==
    IF datetime.offset_seconds.some
    THEN LET utc == to_utc_naive(datetime)
             next_utc == checked_add_signed(utc.v, delta)
         IN IF ~utc.some THEN NoDateTime
            ELSE IF ~next_utc.some THEN NoDateTime
            ELSE from_utc_naive_with_timezone_parts(next_utc.v, datetime.offset_seconds.v,
                                                    datetime.timezone_name)
    ELSE LET next_local == checked_add_signed(datetime.naive, delta)
         IN IF ~next_local.some THEN NoDateTime ELSE from_local_naive(next_local.v)

\* A subtraction that works on the wall clock and returns a naive datetime.
DateTime_py_sub_timedelta_naive(datetime, delta) ==
    LET next_local == checked_sub_signed(datetime.naive, delta)
    IN IF ~next_local.some THEN NoDateTime ELSE from_local_naive(next_local.v)

DateTime_py_sub_timedelta(datetime, delta) ==
    IF datetime.offset_seconds.some
    THEN LET utc == to_utc_naive(datetime)
             next_utc == checked_sub_signed(utc.v, delta)
         IN IF ~utc.some THEN NoDateTime
            ELSE IF ~next_utc.some THEN NoDateTime
            ELSE from_utc_naive_with_timezone_parts(next_utc.v, datetime.offset_seconds.v,
                                                    datetime.timezone_name)
    ELSE LET next_local == checked_sub_signed(datetime.naive, delta)
         IN IF ~next_local.some THEN NoDateTime ELSE from_local_naive(next_local.v)

local_micros(datetime) ==
    IF ~year_in_python_range(civil_from_days(datetime.naive.d)[1]) THEN NoNaive
    ELSE Some(datetime.naive)

utc_micros(datetime) ==
    IF datetime.offset_seconds.some THEN to_utc_naive(datetime) ELSE local_micros(datetime)

DateTime_py_eq(self, other) ==
    IF is_aware(self) # is_aware(other) THEN FALSE
    ELSE IF is_aware(self) THEN utc_micros(self) = utc_micros(other)
    ELSE local_micros(self) = local_micros(other)

\* Option<i64>::partial_cmp: None sorts before Some; otherwise the order of the counts.
partial_cmp(a, b) ==
    IF a = b THEN "Equal"
    ELSE IF ~a.some THEN "Less"
    ELSE IF ~b.some THEN "Greater"
    ELSE IF a.v.d < b.v.d \/ (a.v.d = b.v.d /\ a.v.s < b.v.s)
            \/ (a.v.d = b.v.d /\ a.v.s = b.v.s /\ a.v.u < b.v.u) THEN "Less"
    ELSE "Greater"

\* Mutation of DateTime_py_cmp: the awareness of the operands is not compared.
DateTime_py_cmp_any(self, other) == partial_cmp(utc_micros(self), utc_micros(other))

\* Some(ordering), or "None" when the operands are unordered.
DateTime_py_cmp(self, other) ==
    IF is_aware(self) # is_aware(other) THEN "None"
    ELSE IF is_aware(self) THEN partial_cmp(utc_micros(self), utc_micros(other))
    ELSE partial_cmp(local_micros(self), local_micros(other))

ZeroDelta == [secs |-> [d |-> 0, s |-> 0], nanos |-> 0]
NoDelta == [some |-> FALSE, v |-> ZeroDelta]

\* NaiveDateTime::signed_duration_since: the chrono duration self - other.
signed_duration_since(self, other) ==
    LET t == MicrosSub(self, other)
    IN [secs |-> [d |-> t.d, s |-> t.s], nanos |-> t.u * 1000]

from_chrono(delta) == from_total_microseconds(total_microseconds(delta))

\* Mutation of DateTime_py_sub: the awareness of the operands is not compared.
DateTime_py_sub_any(self, other) ==
    LET delta == from_chrono(signed_duration_since(self.naive, other.naive))
    IN IF ~delta.ok THEN NoDelta ELSE Some(delta.v)

DateTime_py_sub(self, other) ==
    IF is_aware(self) # is_aware(other) THEN NoDelta
    ELSE LET lhs_utc == to_utc_naive(self)
             rhs_utc == to_utc_naive(other)
             diff == IF is_aware(self) THEN signed_duration_since(lhs_utc.v, rhs_utc.v)
                     ELSE signed_duration_since(self.naive, other.naive)
             delta == from_chrono(diff)
         IN IF is_aware(self) /\ ~lhs_utc.some THEN NoDelta
            ELSE IF is_aware(self) /\ ~rhs_utc.some THEN NoDelta
            ELSE IF ~delta.ok THEN NoDelta
            ELSE Some(delta.v)

\* ---------------------------------------------------------------------
\* Values of the four temporal types, and the VM's binary operators
\* (bytecode/vm/binary.rs)
\* ---------------------------------------------------------------------
ZeroDateTime == [naive |-> ZeroNaive, offset_seconds |-> None, timezone_name |-> NoName]
NoValue == [kind |-> "none", delta |-> ZeroDelta, ordinal |-> 0, datetime |-> ZeroDateTime, tz |-> NoTz]
TimeDeltaValue(delta) == [NoValue EXCEPT !.kind = "timedelta", !.delta = delta]
DateValue(ordinal) == [NoValue EXCEPT !.kind = "date", !.ordinal = ordinal]
DateTimeValue(datetime) == [NoValue EXCEPT !.kind = "datetime", !.datetime = datetime]
TimeZoneValue(tz) == [NoValue EXCEPT !.kind = "timezone", !.tz = tz]
NoResult == [some |-> FALSE, v |-> NoValue]

\* Value::py_add on two heap values: the pairs of types that support `+`.
Value_py_add(lhs, rhs) ==
    LET td == TimeDelta_py_add(lhs.delta, rhs.delta)
        d1 == Date_py_add(lhs.ordinal, rhs.delta)
        d2 == Date_py_add(rhs.ordinal, lhs.delta)
        t1 == DateTime_py_add(lhs.datetime, rhs.delta)
        t2 == DateTime_py_add(rhs.datetime, lhs.delta)
    IN CASE lhs.kind = "timedelta" /\ rhs.kind = "timedelta" ->
              IF td.some THEN Some(TimeDeltaValue(td.v)) ELSE NoResult
         [] lhs.kind = "date" /\ rhs.kind = "timedelta" ->
              IF d1.some THEN Some(DateValue(d1.v)) ELSE NoResult
         [] lhs.kind = "timedelta" /\ rhs.kind = "date" ->
              IF d2.some THEN Some(DateValue(d2.v)) ELSE NoResult
         [] lhs.kind = "datetime" /\ rhs.kind = "timedelta" ->
              IF t1.some THEN Some(DateTimeValue(t1.v)) ELSE NoResult
         [] lhs.kind = "timedelta" /\ rhs.kind = "datetime" ->
              IF t2.some THEN Some(DateTimeValue(t2.v)) ELSE NoResult
         [] OTHER -> NoResult

\* Value::py_sub on two heap values: the pairs of types that support `-`.
Value_py_sub(lhs, rhs) ==
    LET td == TimeDelta_py_sub(lhs.delta, rhs.delta)
        d1 == Date_py_sub(lhs.ordinal, rhs.delta)
        dd == Date_py_sub_date(lhs.ordinal, rhs.ordinal)
        t1 == DateTime_py_sub_timedelta(lhs.datetime, rhs.delta)
        tt == DateTime_py_sub(lhs.datetime, rhs.datetime)
    IN CASE lhs.kind = "timedelta" /\ rhs.kind = "timedelta" ->
              IF td.some THEN Some(TimeDeltaValue(td.v)) ELSE NoResult
         [] lhs.kind = "date" /\ rhs.kind = "timedelta" ->
              IF d1.some THEN Some(DateValue(d1.v)) ELSE NoResult
         [] lhs.kind = "date" /\ rhs.kind = "date" ->
              IF dd.some THEN Some(TimeDeltaValue(dd.v)) ELSE NoResult
         [] lhs.kind = "datetime" /\ rhs.kind = "timedelta" ->
              IF t1.some THEN Some(DateTimeValue(t1.v)) ELSE NoResult
         [] lhs.kind = "datetime" /\ rhs.kind = "datetime" ->
              IF tt.some THEN Some(TimeDeltaValue(tt.v)) ELSE NoResult
         [] OTHER -> NoResult

OkValue(v) == [ok |-> TRUE, v |-> v, exc |-> "", msg |-> "", n |-> 0]
ErrValue(exc, msg, n) == [ok |-> FALSE, v |-> NoValue, exc |-> exc, msg |-> msg, n |-> n]
NoError == [some |-> FALSE, exc |-> "", msg |-> "", n |-> 0]
SomeError(exc, msg, n) == [some |-> TRUE, exc |-> exc, msg |-> msg, n |-> n]

datetime_awareness(value) ==
    IF value.kind = "datetime" THEN [some |-> TRUE, v |-> is_aware(value.datetime)]
    ELSE [some |-> FALSE, v |-> FALSE]

date_value_out_of_range_error == SomeError("OverflowError", "date value out of range", 0)

timedelta_overflow_error(lhs, rhs, add) ==
    LET lhs_micros == total_microseconds(lhs)
        rhs_micros == total_microseconds(rhs)
        total_micros == IF add THEN MicrosAdd(lhs_micros, rhs_micros)
                        ELSE MicrosSub(lhs_micros, rhs_micros)
        days == total_micros.d
    IN IF days < MIN_TIMEDELTA_DAYS \/ days > MAX_TIMEDELTA_DAYS
       THEN SomeError("OverflowError", DaysMsg, days)
       ELSE NoError

datetime_arithmetic_overflow_add(lhs, rhs) ==
    IF \/ (lhs.kind = "date" /\ rhs.kind = "timedelta")
       \/ (lhs.kind = "datetime" /\ rhs.kind = "timedelta")
       \/ (lhs.kind = "timedelta" /\ rhs.kind = "date")
       \/ (lhs.kind = "timedelta" /\ rhs.kind = "datetime")
    THEN date_value_out_of_range_error
    ELSE IF lhs.kind = "timedelta" /\ rhs.kind = "timedelta"
    THEN timedelta_overflow_error(lhs.delta, rhs.delta, TRUE)
    ELSE NoError

datetime_arithmetic_overflow_sub(lhs, rhs) ==
    IF \/ (lhs.kind = "date" /\ rhs.kind = "timedelta")
       \/ (lhs.kind = "datetime" /\ rhs.kind = "timedelta")
    THEN date_value_out_of_range_error
    ELSE IF lhs.kind = "timedelta" /\ rhs.kind = "timedelta"
    THEN timedelta_overflow_error(lhs.delta, rhs.delta, FALSE)
    ELSE NoError

binary_type_error(op) == ErrValue("TypeError", "unsupported operand type(s) for " \o op, 0)

binary_add(lhs, rhs) ==
    LET r == Value_py_add(lhs, rhs)
        err == datetime_arithmetic_overflow_add(lhs, rhs)
    IN IF r.some THEN OkValue(r.v)
       ELSE IF err.some THEN ErrValue(err.exc, err.msg, err.n)
       ELSE binary_type_error("+")

NaiveAwareMsg == "can't subtract offset-naive and offset-aware datetimes"

binary_sub(lhs, rhs) ==
    LET r == Value_py_sub(lhs, rhs)
        lhs_aware == datetime_awareness(lhs)
        rhs_aware == datetime_awareness(rhs)
        err == datetime_arithmetic_overflow_sub(lhs, rhs)
    IN IF r.some THEN OkValue(r.v)
       ELSE IF lhs_aware.some /\ rhs_aware.some /\ lhs_aware.v # rhs_aware.v
       THEN ErrValue("TypeError", NaiveAwareMsg, 0)
       ELSE IF err.some THEN ErrValue(err.exc, err.msg, err.n)
       ELSE binary_type_error("-")

\* The temporal types are immutable: py_iadd declines, and inplace_add falls
\* back to py_add.
inplace_add(lhs, rhs) ==
    LET r == Value_py_add(lhs, rhs)
    IN IF r.some THEN OkValue(r.v) ELSE binary_type_error("+=")

\* ---------------------------------------------------------------------
\* Temporal machine: constructors and operators applied to two operands
\* ---------------------------------------------------------------------
\* Value::py_eq: values of different types are unequal.
Value_py_eq(lhs, rhs) ==
    CASE lhs.kind # rhs.kind -> FALSE
      [] lhs.kind = "timedelta" -> TimeDelta_py_eq(lhs.delta, rhs.delta)
      [] lhs.kind = "date" -> lhs.ordinal = rhs.ordinal
      [] lhs.kind = "datetime" -> DateTime_py_eq(lhs.datetime, rhs.datetime)
      [] lhs.kind = "timezone" -> TimeZone_py_eq(lhs.tz, rhs.tz)
      [] OTHER -> FALSE

\* Value::py_cmp: Some(ordering) or "None".
Value_py_cmp(lhs, rhs) ==
    CASE lhs.kind # rhs.kind -> "None"
      [] lhs.kind = "timedelta" ->
           partial_cmp(Some(total_microseconds(lhs.delta)), Some(total_microseconds(rhs.delta)))
      [] lhs.kind = "date" ->
           partial_cmp(Some(Micros(lhs.ordinal, 0, 0)), Some(Micros(rhs.ordinal, 0, 0)))
      [] lhs.kind = "datetime" -> DateTime_py_cmp(lhs.datetime, rhs.datetime)
      [] OTHER -> "None"

CmpOps == {"==", "!=", "<", "<=", ">", ">="}

\* The VM's comparison instructions: == and != use py_eq; the ordering
\* operators use py_cmp and raise TypeError when it has no result.
compare_op(op, lhs, rhs) ==
    LET ord == Value_py_cmp(lhs, rhs)
    IN CASE op = "==" -> [ok |-> TRUE, bool |-> Value_py_eq(lhs, rhs)]
         [] op = "!=" -> [ok |-> TRUE, bool |-> ~Value_py_eq(lhs, rhs)]
         [] ord = "None" -> [ok |-> FALSE, bool |-> FALSE]
         [] op = "<" -> [ok |-> TRUE, bool |-> ord = "Less"]
         [] op = "<=" -> [ok |-> TRUE, bool |-> ord # "Greater"]
         [] op = ">" -> [ok |-> TRUE, bool |-> ord = "Greater"]
         [] OTHER -> [ok |-> TRUE, bool |-> ord # "Less"]

\* ---------------------------------------------------------------------
\* Type  (types/type.rs)
\* A type is [tag, exc]: the enum variant and, for Exception, its ExcType.
\* ---------------------------------------------------------------------
Type(tag) == [tag |-> tag, exc |-> ""]
Exception(exc_type) == [tag |-> "Exception", exc |-> exc_type]
NoType == Type("")

\* The closed exception taxonomy (spec 4.3.3).
ExcTypes ==
    {"BaseException", "Exception", "ArithmeticError", "ZeroDivisionError", "OverflowError",
     "AttributeError", "KeyError", "IndexError", "LookupError", "NameError", "TypeError",
     "ValueError", "AssertionError", "RuntimeError", "StopIteration", "NotImplementedError",
     "ImportError", "SystemExit"}

PlainTypes ==
    {"Ellipsis", "Type", "NoneType", "Bool", "Int", "Float", "Range", "Slice", "Date",
     "DateTime", "TimeDelta", "TimeZone", "Str", "Bytes", "List", "Tuple", "NamedTuple",
     "Dict", "Set", "FrozenSet", "Dataclass", "Function", "BuiltinFunction", "Cell",
     "Iterator", "Coroutine", "Module", "TextIOWrapper", "SpecialForm", "Path", "Property"}

Types == {Type(t) : t \in PlainTypes} \cup {Exception(t) : t \in ExcTypes}

\* Type::is_instance_of: the same type, or bool tested against int.
is_instance_of(self, other) ==
    IF self = other THEN TRUE
    ELSE IF self = Type("Bool") /\ other = Type("Int") THEN TRUE
    ELSE FALSE

TypeIdle ==
    /\ self_type = NoType
    /\ other_type = NoType
    /\ instance = "none"

\* ---------------------------------------------------------------------
\* Interner  (intern.rs)
\* An interner is [string_map, strings, bytes]; StringId(n) and BytesId(n)
\* are the number n, the index of the entry counted from 0.  A string of one
\* control character, or of the grave accent, is written <0xNN>.
\* ---------------------------------------------------------------------
MAX_ATTR_ID == 70
EMPTY_STRING == MAX_ATTR_ID + 1
ASCII_STRING_COUNT == 128
ASCII_STRING_START_ID == MAX_ATTR_ID + 2

ASCII_STRS ==
    <<
     "<0x00>", "<0x01>", "<0x02>", "<0x03>", "<0x04>", "<0x05>", "<0x06>", "<0x07>", "<0x08>", "\t",
     "\n", "<0x0B>", "\f", "\r", "<0x0E>", "<0x0F>", "<0x10>", "<0x11>", "<0x12>", "<0x13>",
     "<0x14>", "<0x15>", "<0x16>", "<0x17>", "<0x18>", "<0x19>", "<0x1A>", "<0x1B>", "<0x1C>", "<0x1D>",
     "<0x1E>", "<0x1F>", " ", "!", "\"", "#", "$", "%", "&", "'",
     "(", ")", "*", "+", ",", "-", ".", "/", "0", "1",
     "2", "3", "4", "5", "6", "7", "8", "9", ":", ";",
     "<", "=", ">", "?", "@", "A", "B", "C", "D", "E",
     "F", "G", "H", "I", "J", "K", "L", "M", "N", "O",
     "P", "Q", "R", "S", "T", "U", "V", "W", "X", "Y",
     "Z", "[", "\\", "]", "^", "_", "<0x60>", "a", "b", "c",
     "d", "e", "f", "g", "h", "i", "j", "k", "l", "m",
     "n", "o", "p", "q", "r", "s", "t", "u", "v", "w",
     "x", "y", "z", "{", "|", "}", "~", "<0x7F>"
    >>

\* The id one below: the empty string's slot taken for byte 0.
ascii_string_id_without_empty(byte) == MAX_ATTR_ID + 1 + byte

ascii_string_id(byte) == ASCII_STRING_START_ID + byte

\* mod attr: the constants, each with the method name it stands for.
attr ==
    <<
     [name |-> "append", id |-> 1], [name |-> "insert", id |-> 2], [name |-> "extend", id |-> 3],
     [name |-> "reverse", id |-> 4], [name |-> "sort", id |-> 5], [name |-> "get", id |-> 6],
     [name |-> "keys", id |-> 7], [name |-> "values", id |-> 8], [name |-> "items", id |-> 9],
     [name |-> "setdefault", id |-> 10], [name |-> "popitem", id |-> 11], [name |-> "fromkeys", id |-> 12],
     [name |-> "pop", id |-> 13], [name |-> "clear", id |-> 14], [name |-> "copy", id |-> 15],
     [name |-> "add", id |-> 16], [name |-> "remove", id |-> 17], [name |-> "discard", id |-> 18],
     [name |-> "update", id |-> 19], [name |-> "union", id |-> 20], [name |-> "intersection", id |-> 21],
     [name |-> "difference", id |-> 22], [name |-> "symmetric_difference", id |-> 23], [name |-> "issubset", id |-> 24],
     [name |-> "issuperset", id |-> 25], [name |-> "isdisjoint", id |-> 26], [name |-> "join", id |-> 27],
     [name |-> "lower", id |-> 28], [name |-> "upper", id |-> 29], [name |-> "capitalize", id |-> 30],
     [name |-> "title", id |-> 31], [name |-> "swapcase", id |-> 32], [name |-> "casefold", id |-> 33],
     [name |-> "isalpha", id |-> 34], [name |-> "isdigit", id |-> 35], [name |-> "isalnum", id |-> 36],
     [name |-> "isnumeric", id |-> 37], [name |-> "isspace", id |-> 38], [name |-> "islower", id |-> 39],
     [name |-> "isupper", id |-> 40], [name |-> "isascii", id |-> 41], [name |-> "isdecimal", id |-> 42],
     [name |-> "find", id |-> 43], [name |-> "rfind", id |-> 44], [name |-> "index", id |-> 45],
     [name |-> "rindex", id |-> 46], [name |-> "count", id |-> 47], [name |-> "startswith", id |-> 48],
     [name |-> "endswith", id |-> 49], [name |-> "strip", id |-> 50], [name |-> "lstrip", id |-> 51],
     [name |-> "rstrip", id |-> 52], [name |-> "removeprefix", id |-> 53], [name |-> "removesuffix", id |-> 54],
     [name |-> "split", id |-> 55], [name |-> "rsplit", id |-> 56], [name |-> "splitlines", id |-> 57],
     [name |-> "partition", id |-> 58], [name |-> "rpartition", id |-> 59], [name |-> "replace", id |-> 60],
     [name |-> "center", id |-> 61], [name |-> "ljust", id |-> 62], [name |-> "rjust", id |-> 63],
     [name |-> "zfill", id |-> 64], [name |-> "encode", id |-> 65], [name |-> "isidentifier", id |-> 66],
     [name |-> "istitle", id |-> 67], [name |-> "decode", id |-> 68], [name |-> "hex", id |-> 69],
     [name |-> "fromhex", id |-> 70]
    >>

\* The method names build_base interns, in the order of its calls.
AttrNames ==
    <<
     "append", "insert", "extend", "reverse", "sort", "get", "keys",
     "values", "items", "setdefault", "popitem", "fromkeys", "pop", "clear",
     "copy", "add", "remove", "discard", "update", "union", "intersection",
     "difference", "symmetric_difference", "issubset", "issuperset", "isdisjoint", "join", "lower",
     "upper", "capitalize", "title", "swapcase", "casefold", "isalpha", "isdigit",
     "isalnum", "isnumeric", "isspace", "islower", "isupper", "isascii", "isdecimal",
     "find", "rfind", "index", "rindex", "count", "startswith", "endswith",
     "strip", "lstrip", "rstrip", "removeprefix", "removesuffix", "split", "rsplit",
     "splitlines", "partition", "rpartition", "replace", "center", "ljust", "rjust",
     "zfill", "encode", "isidentifier", "istitle", "decode", "hex", "fromhex"
    >>

\* string_map is the set of its entries [key, id].
EmptyInterner == [string_map |-> {}, strings |-> <<>>, bytes |-> <<>>]
contains_key(map, s) == \E e \in map : e.key = s
map_get(map, s) == (CHOOSE e \in map : e.key = s).id

\* An intern that never consults the map.
intern_without_lookup(self, s) ==
    [interner |-> [self EXCEPT !.strings = Append(@, s)], id |-> Len(self.strings)]

\* InternerBuilder::intern: the id in the map, or the next index for a
\* string that is pushed and entered in the map.
intern(self, s) ==
    IF contains_key(self.string_map, s)
    THEN [interner |-> self, id |-> map_get(self.string_map, s)]
    ELSE [interner |->
            [self EXCEPT !.strings = Append(@, s),
                         !.string_map = @ \cup {[key |-> s, id |-> Len(self.strings)]}],
          id |-> Len(self.strings)]

intern_static(self, s) ==
    IF contains_key(self.string_map, s)
    THEN [interner |-> self, id |-> map_get(self.string_map, s)]
    ELSE [interner |->
            [self EXCEPT !.strings = Append(@, s),
                         !.string_map = @ \cup {[key |-> s, id |-> Len(self.strings)]}],
          id |-> Len(self.strings)]

\* InternerBuilder::intern_bytes: always a new entry.
intern_bytes(self, b) ==
    [interner |-> [self EXCEPT !.bytes = Append(@, b)], id |-> Len(self.bytes)]

get_str(self, id) == self.strings[id + 1]
get_bytes(self, id) == self.bytes[id + 1]

\* intern_static called on strs[lo..hi] in order.  The test on the length
\* never holds: it has the interner computed before the next call is made.
RECURSIVE intern_range(_, _, _, _)
intern_range(self, strs, lo, hi) ==
    IF lo > hi \/ Len(self.strings) < 0 THEN self
    ELSE intern_range(intern_static(self, strs[lo]).interner, strs, lo + 1, hi)
intern_all(self, strs) == intern_range(self, strs, 1, Len(strs))

\* InternerBuilder::build_base.
build_base ==
    intern_all(intern_all(intern_all(intern_all(EmptyInterner, <<"<module>">>), AttrNames),
                          <<"">>), ASCII_STRS)

\* InternerBuilder::new: a clone of the base interner.
InternerBuilder_new == build_base

NoIntern ==
    [op |-> "", s |-> "", id |-> 0, present |-> FALSE, existing |-> 0, len |-> 0, calls |-> 0]
InternIdle ==
    /\ interner = EmptyInterner
    /\ issued = {}
    /\ issued_bytes = {}
    /\ last_intern = NoIntern

\* ---------------------------------------------------------------------
\* Host effects: datetime.now and date.today  (types/datetime.rs, date.rs)
\* Arguments are temporal values, NoValue standing for None; keyword
\* arguments are [key, string, value] with string FALSE for a key that is
\* not a str.  The arguments of an OS call are inline values.
\* ---------------------------------------------------------------------
NoCall == [name |-> "", pos |-> <<>>, kwargs |-> <<>>]
NoEffect == [kind |-> "", function |-> "", args |-> <<>>, exc |-> "", msg |-> ""]
OsCall(function, args) == [NoEffect EXCEPT !.kind = "OsCall", !.function = function, !.args = args]
EffectErr(exc, msg) == [NoEffect EXCEPT !.kind = "Err", !.exc = exc, !.msg = msg]
StrValue(s) == [k |-> "str", n |-> 0, s |-> s]
IntValue(n) == [k |-> "int", n |-> n, s |-> ""]

\* tzinfo_from_value: None, a timezone, or TypeError.
tzinfo_from_value(value) ==
    CASE value.kind = "none" -> Ok(NoTz)
      [] value.kind = "timezone" -> Ok(value.tz)
      [] OTHER -> Err("TypeError", "tzinfo argument must be datetime.timezone or None", 0)

\* The mode encoding with the offset and the name exchanged.
os_args_name_first(tzinfo) ==
    IF tzinfo.some
    THEN IF tzinfo.name.some
         THEN <<IntValue(2), StrValue(tzinfo.name.v), IntValue(tzinfo.offset_seconds)>>
         ELSE <<IntValue(2), IntValue(tzinfo.offset_seconds)>>
    ELSE <<IntValue(1)>>

\* class_now, the mode encoding: 1 without timezone, 2 with the offset and
\* the explicit name if there is one.
os_args(tzinfo) ==
    IF tzinfo.some
    THEN IF tzinfo.name.some
         THEN <<IntValue(2), IntValue(tzinfo.offset_seconds), StrValue(tzinfo.name.v)>>
         ELSE <<IntValue(2), IntValue(tzinfo.offset_seconds)>>
    ELSE <<IntValue(1)>>

\* class_now, the keyword loop: st is [tzinfo, seen_tz].
RECURSIVE now_kwargs(_, _)
now_kwargs(kwargs, st) ==
    IF kwargs = <<>> THEN OsCall("DateTimeNow", os_args(st.tzinfo))
    ELSE IF ~Head(kwargs).string THEN EffectErr("TypeError", "keywords must be strings")
    ELSE IF Head(kwargs).key # "tz"
         THEN EffectErr("TypeError", "datetime.now() got an unexpected keyword argument")
    ELSE IF st.seen_tz
         THEN EffectErr("TypeError", "datetime.now() got multiple values for argument 'tz'")
    ELSE IF ~tzinfo_from_value(Head(kwargs).value).ok
         THEN EffectErr("TypeError", tzinfo_from_value(Head(kwargs).value).msg)
    ELSE now_kwargs(Tail(kwargs),
                    [tzinfo |-> tzinfo_from_value(Head(kwargs).value).v, seen_tz |-> TRUE])

\* datetime::class_now.
class_now(pos, kwargs) ==
    IF Len(pos) = 0 THEN now_kwargs(kwargs, [tzinfo |-> NoTz, seen_tz |-> FALSE])
    ELSE IF ~tzinfo_from_value(pos[1]).ok
         THEN EffectErr("TypeError", tzinfo_from_value(pos[1]).msg)
    ELSE IF Len(pos) > 1
         THEN EffectErr("TypeError", "datetime.now() takes at most 1 argument")
    ELSE now_kwargs(kwargs, [tzinfo |-> tzinfo_from_value(pos[1]).v, seen_tz |-> TRUE])

\* Date::class_today.
class_today(pos, kwargs) ==
    IF pos # <<>> \/ kwargs # <<>> THEN EffectErr("TypeError", "date.today() takes no arguments")
    ELSE OsCall("DateTimeNow", <<IntValue(0)>>)

OsIdle ==
    /\ method = NoCall
    /\ effect = NoEffect

\* The VM before an operation: an empty stack and heap, nothing counted.
NoVm == [stack |-> <<>>, heap |-> <<>>, lhs_drops |-> 0, rhs_drops |-> 0, pushes |-> 0,
         ok |-> TRUE, exc |-> "", msg |-> ""]
VmIdle ==
    /\ vmop = [op |-> "", lhs |-> "", rhs |-> "", same |-> FALSE, before |-> NoVm]
    /\ vm = NoVm

PureIdle == TypeIdle /\ InternIdle /\ OsIdle /\ VmIdle

\* ---------------------------------------------------------------------
\* Host value bridge (spec 6.1).  A host value is a record
\*     [tag, num, str, items]
\* with tag the variant, num its integer fields, str its string fields and
\* items its children.  An integer is num = <<negative, limbs...>> with the
\* magnitude in little-endian base-65536 limbs and no leading zero limb.
\* An internal value has the same shape plus t, the temporal value it holds.
\* ---------------------------------------------------------------------
H(tag, num, str, items) == [tag |-> tag, num |-> num, str |-> str, items |-> items]
NoHost == H("", <<>>, <<>>, <<>>)
V(tag, num, str, items, t) == [tag |-> tag, num |-> num, str |-> str, items |-> items, t |-> t]
NoInternal == V("", <<>>, <<>>, <<>>, NoValue)

BridgeIdle ==
    /\ input = NoHost
    /\ phase = "idle"
    /\ namespace = NoInternal
    /\ executed = 0
    /\ output = NoHost
    /\ failure = NoError

\* BigInt::to_i64().is_some(): the magnitude is below 2^63, or it is 2^63 and
\* the sign is negative.
fits_i64(num) ==
    LET mag == Tail(num)
    IN \/ Len(mag) < 4
       \/ /\ Len(mag) = 4
          /\ \/ mag[4] < 32768
             \/ num[1] = 1 /\ mag[4] = 32768 /\ mag[1] = 0 /\ mag[2] = 0 /\ mag[3] = 0

\* Variant that keeps every arbitrary-precision integer a LongInt.
LongInt_into_value_tagged(num) == V("LongInt", num, <<>>, <<>>, NoValue)

\* LongInt::new(bi).into_value(): an Int when the number fits i64.
LongInt_into_value(num) ==
    IF fits_i64(num) THEN V("Int", num, <<>>, <<>>, NoValue)
    ELSE V("LongInt", num, <<>>, <<>>, NoValue)

OkInternal(v) == [ok |-> TRUE, v |-> v, exc |-> "", msg |-> "", n |-> 0]
ErrInternal(exc, msg, n) == [ok |-> FALSE, v |-> NoInternal, exc |-> exc, msg |-> msg, n |-> n]

\* Variants that map one to one.
PrimitiveTags == {"None", "Ellipsis", "Bool", "Int", "Float", "String", "Bytes", "Path",
                  "Exception", "Type", "BuiltinFunction"}
\* Values a dict key or set element may not be.
Unhashable(v) == v.tag \in {"List", "Dict", "Set"}

\* The integer a Bool, Int or LongInt denotes, as <<negative, limbs...>>.
Numeric(v) == v.tag \in {"Bool", "Int", "LongInt"}
AsInteger(v) ==
    IF v.tag = "Bool" THEN (IF v.num[1] = 1 THEN <<0, 1>> ELSE <<0>>) ELSE v.num

\* Python equality of two hashable internal values, as dict and set lookup
\* use it: numbers compare by value across Bool and Int.
key_eq(a, b) ==
    IF Numeric(a) /\ Numeric(b) THEN AsInteger(a) = AsInteger(b) ELSE a = b

\* Index of the first element of seq equal to v under key_eq, or 0.
IndexOfKey(seq, v) ==
    IF \E i \in 1..Len(seq) : key_eq(seq[i], v)
    THEN CHOOSE i \in 1..Len(seq) : key_eq(seq[i], v) /\ \A j \in 1..(i - 1) : ~key_eq(seq[j], v)
    ELSE 0

\* Set::add in sequence: an element equal to an earlier one is dropped.
RECURSIVE set_from_items(_, _)
set_from_items(items, acc) ==
    IF items = <<>> THEN acc
    ELSE set_from_items(Tail(items),
                        IF IndexOfKey(acc, Head(items)) = 0 THEN Append(acc, Head(items)) ELSE acc)

\* Dict::set in sequence over <<k1, v1, k2, v2, ...>>: a key equal to an
\* earlier one keeps the earlier key and position and takes the new value.
RECURSIVE dict_from_pairs(_, _)
dict_from_pairs(pairs, acc) ==
    IF pairs = <<>> THEN acc
    ELSE LET k == pairs[1]
             v == pairs[2]
             at == IndexOfKey([i \in 1..(Len(acc) \div 2) |-> acc[2 * i - 1]], k)
         IN dict_from_pairs(SubSeq(pairs, 3, Len(pairs)),
                            IF at = 0 THEN acc \o <<k, v>> ELSE [acc EXCEPT ![2 * at] = v])

OptName(str) == IF str = <<>> THEN NoName ELSE Some(str[1])
NameStr(name) == IF name.some THEN <<name.v>> ELSE <<>>
FirstFailure(rs) == rs[CHOOSE i \in 1..Len(rs) : ~rs[i].ok /\ \A j \in 1..(i - 1) : rs[j].ok]

\* Host DateTime -> internal datetime: the timezone, when an offset is given,
\* is built by TimeZone::new and handed to from_components as tzinfo.
datetime_to_value(h) ==
    LET tz == IF h.num[8] = 1 THEN TimeZone_new(h.num[9], OptName(h.str)) ELSE Ok(NoTz)
    IN IF ~tz.ok THEN ErrInternal(tz.exc, tz.msg, tz.n)
       ELSE LET r == from_components(h.num[1], h.num[2], h.num[3], h.num[4], h.num[5], h.num[6],
                                     h.num[7], tz.v)
            IN IF r.ok THEN OkInternal(V("DateTime", <<>>, <<>>, <<>>, DateTimeValue(r.v)))
               ELSE ErrInternal(r.exc, r.msg, r.n)

\* MontyObject::to_value: host value -> internal value, or an input error.
RECURSIVE to_value(_)

\* Variant that looks for output-only variants at the top level only.
to_value_shallow(h) ==
    IF h.tag \in {"Repr", "Cycle"} THEN ErrInternal("InvalidInputError", h.tag, 0)
    ELSE OkInternal(V(h.tag, h.num, h.str, <<>>, NoValue))

to_value(h) ==
    CASE h.tag \in {"Repr", "Cycle"} -> ErrInternal("InvalidInputError", h.tag, 0)
      [] h.tag \in PrimitiveTags -> OkInternal(V(h.tag, h.num, h.str, <<>>, NoValue))
      [] h.tag = "BigInt" -> OkInternal(LongInt_into_value(h.num))
      [] h.tag = "Date" ->
            LET r == Date_from_ymd(h.num[1], h.num[2], h.num[3])
            IN IF r.ok THEN OkInternal(V("Date", <<>>, <<>>, <<>>, DateValue(r.v)))
               ELSE ErrInternal(r.exc, r.msg, r.n)
      [] h.tag = "DateTime" -> datetime_to_value(h)
      [] h.tag = "TimeDelta" ->
            LET r == timedelta_new(h.num[1], h.num[2], h.num[3])
            IN IF r.ok THEN OkInternal(V("TimeDelta", <<>>, <<>>, <<>>, TimeDeltaValue(r.v)))
               ELSE ErrInternal(r.exc, r.msg, r.n)
      [] h.tag = "TimeZone" ->
            LET r == TimeZone_new(h.num[1], OptName(h.str))
            IN IF r.ok THEN OkInternal(V("TimeZone", <<>>, <<>>, <<>>, TimeZoneValue(r.v)))
               ELSE ErrInternal(r.exc, r.msg, r.n)
      [] OTHER ->
            LET rs == [i \in 1..Len(h.items) |-> to_value(h.items[i])]
                vs == [i \in 1..Len(h.items) |-> rs[i].v]
            IN IF \E i \in 1..Len(rs) : ~rs[i].ok THEN FirstFailure(rs)
               ELSE IF h.tag \in {"Set", "FrozenSet"}
               THEN (IF \E i \in 1..Len(vs) : Unhashable(vs[i])
                     THEN ErrInternal("TypeError", "unhashable type", 0)
                     ELSE OkInternal(V(h.tag, h.num, h.str, set_from_items(vs, <<>>), NoValue)))
               ELSE IF h.tag = "Dict"
               THEN (IF \E i \in 1..(Len(vs) \div 2) : Unhashable(vs[2 * i - 1])
                     THEN ErrInternal("TypeError", "unhashable type", 0)
                     ELSE OkInternal(V(h.tag, h.num, h.str, dict_from_pairs(vs, <<>>), NoValue)))
               ELSE OkInternal(V(h.tag, h.num, h.str, vs, NoValue))

\* MontyObject::new: internal value -> host value.
RECURSIVE from_value(_)
from_value(v) ==
    CASE v.tag = "LongInt" -> H("BigInt", v.num, <<>>, <<>>)
      [] v.tag = "Date" ->
            LET ymd == Date_to_ymd(v.t.ordinal) IN H("Date", <<ymd[1], ymd[2], ymd[3]>>, <<>>, <<>>)
      [] v.tag = "DateTime" ->
            LET c == to_components(v.t.datetime).v
                off == v.t.datetime.offset_seconds
            IN H("DateTime", c \o <<IF off.some THEN 1 ELSE 0, IF off.some THEN off.v ELSE 0>>,
                 NameStr(v.t.datetime.timezone_name), <<>>)
      [] v.tag = "TimeDelta" -> H("TimeDelta", components(v.t.delta), <<>>, <<>>)
      [] v.tag = "TimeZone" -> H("TimeZone", <<v.t.tz.offset_seconds>>, NameStr(v.t.tz.name), <<>>)
      [] OTHER -> H(v.tag, v.num, v.str, [i \in 1..Len(v.items) |-> from_value(v.items[i])])

\* ---------------------------------------------------------------------
\* Frame executor (run_frame.rs): values, heap, snapshot tracker
\* A value is [k, n, s]: k the variant, n an integer payload (the heap id of
\* a Ref), s a name payload (builtin or exception type).
\* ---------------------------------------------------------------------
Val(k, n, s) == [k |-> k, n |-> n, s |-> s]
VUndefined == Val("undefined", 0, "")
VNone == Val("none", 0, "")
VInt(n) == Val("int", n, "")
VBool(b) == Val("bool", IF b THEN 1 ELSE 0, "")
VRef(id) == Val("ref", id, "")
VBuiltin(name) == Val("builtin", 0, name)
\* An exception value: s is its type and n its argument, 0 for no argument
\* and i for ExcArgs[i].
VExc(type, arg) == Val("exc", arg, type)
ExcArgs == <<"input error">>
exc_arg(v) == IF v.n = 0 THEN "" ELSE ExcArgs[v.n]

\* Heap::allocate: a new record with one reference; ids are not reused.
allocate(heap, kind, items) == Append(heap, [rc |-> 1, kind |-> kind, items |-> items])
inc_ref(heap, id) == [heap EXCEPT ![id].rc = @ + 1]

\* Heap::dec_ref: release one reference; the record is freed at zero and
\* releases the references it holds.
RECURSIVE dec_ref(_, _)
RECURSIVE dec_ref_all(_, _)
dec_ref(heap, id) ==
    IF heap[id].rc > 1 THEN [heap EXCEPT ![id].rc = @ - 1]
    ELSE dec_ref_all([heap EXCEPT ![id] = [rc |-> 0, kind |-> "free", items |-> <<>>]],
                     heap[id].items)
dec_ref_all(heap, values) ==
    IF values = <<>> THEN heap
    ELSE dec_ref_all(IF Head(values).k = "ref" THEN dec_ref(heap, Head(values).n) ELSE heap,
                     Tail(values))

\* Value::drop_with_heap and Value::clone_with_heap on the heap of machine m.
drop_with_heap(m, v) == IF v.k = "ref" THEN [m EXCEPT !.heap = dec_ref(@, v.n)] ELSE m
drop_all_with_heap(m, values) == [m EXCEPT !.heap = dec_ref_all(@, values)]
clone_with_heap(m, v) == IF v.k = "ref" THEN [m EXCEPT !.heap = inc_ref(@, v.n)] ELSE m

\* Clause state and positions of the snapshot tracker.
NoForIter == [value |-> VNone, index |-> 0]
NoClause == [kind |-> "none", test |-> FALSE, iter |-> NoForIter]
ClauseIf(test) == [kind |-> "if", test |-> test, iter |-> NoForIter]
ClauseFor(for_iter) == [kind |-> "for", test |-> FALSE, iter |-> for_iter]
NoTracker == [stack |-> <<>>, pending |-> NoClause]

\* AbstractSnapshotTracker::next: the position to start a block at; the
\* positions recorded on the way out are consumed outermost first.
tracker_next(trk) ==
    IF trk.stack = <<>> THEN [index |-> 0, clause |-> NoClause]
    ELSE trk.stack[Len(trk.stack)]
tracker_after_next(trk) ==
    IF trk.stack = <<>> THEN trk ELSE [trk EXCEPT !.stack = SubSeq(@, 1, Len(@) - 1)]
\* AbstractSnapshotTracker::record and set_clause_state.
tracker_record(trk, index) ==
    [stack |-> Append(trk.stack, [index |-> index, clause |-> trk.pending]), pending |-> NoClause]
tracker_set_clause_state(trk, clause) == [trk EXCEPT !.pending = clause]

\* Namespaces::clear_ext_return_values: drop the stashed external returns.
clear_ext_return_values(m) ==
    [drop_all_with_heap(m, [i \in 1..Len(m.stash) |-> m.stash[i].v]) EXCEPT !.stash = <<>>]

\* The resource tracker: the time limit, if any, and the time elapsed, one
\* unit for each statement begun and each iteration step of a for loop.
\* Ghost: late counts the iteration steps begun after the limit was exceeded,
\* late_nodes the statements.
\* gc_at is the count of elapsed units at which should_gc answers yes.
\* Ghost: collections counts the collections, lost holds the records a
\* collection freed although a value held by a statement in progress led to
\* them.
NoLimitTracker ==
    [limit |-> None, clock |-> 0, late |-> 0, late_nodes |-> 0,
     gc_at |-> None, collections |-> 0, lost |-> {}]
LimitedTracker(limit) == [NoLimitTracker EXCEPT !.limit = limit]
GcTracker(gc_at) == [NoLimitTracker EXCEPT !.gc_at = gc_at]
\* ResourceTracker::should_gc.
should_gc(rt) == rt.gc_at.some /\ rt.clock = rt.gc_at.v
\* ResourceTracker::check_time: TRUE for Ok, FALSE once the limit is exceeded.
check_time(rt) == ~(rt.limit.some /\ rt.clock >= rt.limit.v)
\* A statement or an iteration step begins.
begin_node(m) ==
    [m EXCEPT !.rt.clock = @ + 1,
              !.rt.late_nodes = IF check_time(m.rt) THEN @ ELSE @ + 1]
begin_iteration(m) ==
    [m EXCEPT !.rt.clock = @ + 1,
              !.rt.late = IF check_time(m.rt) THEN @ ELSE @ + 1]

NSlots == 3
\* Bookkeeping of the namespace stack: namespaces popped, slots pushed with
\* them and slots released by pops, whether the global namespace was ever
\* popped, and whether every call left the stack as deep as it found it.
\* Bookkeeping of the compound statements: tests of if statements evaluated,
\* if statements left by a frame exit and entered with a saved test;
\* iterables of for statements evaluated, iterators created and dropped,
\* for statements left by a frame exit and entered with a saved iterator,
\* the positions bound to loop targets in order (again: the first binding
\* after an entry with a saved iterator), and else blocks of for
\* statements run.
NoClauses == [tests |-> 0, if_exits |-> 0, if_resumed |-> 0,
              iterables |-> 0, iters |-> 0, iter_drops |-> 0, for_exits |-> 0, for_resumed |-> 0,
              rebind |-> FALSE, bound |-> <<>>, or_else |-> 0, for_returns |-> 0]
note_bind(m, for_iter) ==
    [m EXCEPT !.clauses.bound = Append(@, [index |-> for_iter.index, again |-> m.clauses.rebind]),
              !.clauses.rebind = FALSE]
note_iter_drop(m) == [m EXCEPT !.clauses.iter_drops = @ + 1, !.clauses.rebind = FALSE]
\* Bookkeeping of the stash: stashed values consumed by external calls, and
\* statements or blocks begun with a stash that was not empty.
NoReturns == [consumed |-> 0, stale |-> 0]
note_start(m) == IF m.stash = <<>> THEN m ELSE [m EXCEPT !.returns.stale = @ + 1]
NoFrames == [popped |-> 0, slots |-> 0, released |-> 0, global_popped |-> FALSE, unwound |-> TRUE]
\* Machine at the start of run: one global namespace of undefined slots.
NewMachine(sync, reply) ==
    [nss |-> <<[i \in 1..NSlots |-> VUndefined]>>, heap |-> <<>>, stash |-> <<>>, out |-> <<>>,
     trk |-> NoTracker, sync |-> sync, reply |-> reply, rt |-> NoLimitTracker, held |-> <<>>,
     pushed |-> 0, frames |-> NoFrames, clauses |-> NoClauses, returns |-> NoReturns,
     opa |-> [rhs |-> 0, copy |-> 0], walker |-> "run_frame"]

\* Heap ids of the references among values.
RefsOf(values) == {values[i].n : i \in {j \in 1..Len(values) : values[j].k = "ref"}}
\* Namespaces::iter_heap_ids: the references in the slots of all namespaces.
iter_heap_ids(m) == UNION {RefsOf(m.nss[i]) : i \in 1..Len(m.nss)}

\* Mark phase: the records reachable from the marked ones.
RECURSIVE mark(_, _)
RECURSIVE mark_step(_, _, _)
mark_step(heap, marked, next) == IF next = marked THEN marked ELSE mark(heap, next)
mark(heap, marked) ==
    mark_step(heap, marked, marked \cup UNION {RefsOf(heap[id].items) : id \in marked})

\* Sweep phase: every occupied record that is not marked is freed, without
\* releasing the references it holds.
sweep(heap, marked) ==
    SubSeq([id \in 1..Len(heap) |->
                IF id \in marked THEN heap[id] ELSE [rc |-> 0, kind |-> "free", items |-> <<>>]],
           1, Len(heap))

Occupied(heap) == {id \in 1..Len(heap) : heap[id].kind # "free"}

\* A collection that marks nothing.
collect_garbage_no_roots(m, roots) ==
    [m EXCEPT !.heap = sweep(@, {}), !.rt.collections = @ + 1]

\* Heap::collect_garbage with the roots the caller supplies.
collect_garbage(m, roots) ==
    [m EXCEPT !.heap = sweep(@, mark(m.heap, roots)),
              !.rt.collections = @ + 1,
              !.rt.lost = @ \cup ((mark(m.heap, RefsOf(m.held)) \cap Occupied(m.heap))
                                    \ mark(m.heap, roots))]

\* A value held by a statement in progress, outside every namespace.
hold(m, v) == [m EXCEPT !.held = Append(@, v)]
release(m) == [m EXCEPT !.held = SubSeq(@, 1, Len(@) - 1)]

NoShown == [k |-> "none", n |-> 0, s |-> "", items |-> <<>>]
NoOutcome == [kind |-> "", v |-> NoShown, exc |-> "", msg |-> "", out |-> <<>>, site |-> 0]
FrameIdle ==
    /\ program = <<>>
    /\ mach = NewMachine(FALSE, 0)
    /\ fphase = "idle"
    /\ outcome = NoOutcome
    /\ reference = NoOutcome
    /\ nsusp = 0
    /\ inloop = FALSE

\* ---------------------------------------------------------------------
\* Expressions and their evaluation (evaluate.rs)
\* An expression is [op, n, s, args]; a step result is [m, kind, v, vs, exc,
\* msg] with kind one of value, none (statement completed), return, ext
\* (FrameExit::ExternalCall) and err.
\* ---------------------------------------------------------------------
E(op, n, s, args) == [op |-> op, n |-> n, s |-> s, args |-> args]
NoExpr == E("absent", 0, "", <<>>)
Const(n) == E("const", n, "", <<>>)
NoneLit == E("none", 0, "", <<>>)
Name(slot, scope) == E("name", slot, scope, <<>>)
ListLit(args) == E("list", 0, "", args)
FString == E("fstring", 0, "", <<>>)
BuiltinName(name) == E("builtin", 0, name, <<>>)
ExcInstance(type, arg) == E("exc", arg, type, <<>>)
Add(a, b) == E("add", 0, "", <<a, b>>)
ExtCall(site) == E("ext", site, "", <<>>)
print_call(a) == E("print", 0, "", <<a>>)
Call(f, args) == E("call", f, "", args)

R(m, kind, v, vs, exc, msg) == [m |-> m, kind |-> kind, v |-> v, vs |-> vs, exc |-> exc, msg |-> msg]
RValue(m, v) == R(m, "value", v, <<>>, "", "")
RNone(m) == R(m, "none", VNone, <<>>, "", "")
RReturn(m, v) == R(m, "return", v, <<>>, "", "")
RExt(m, site) == R(m, "ext", VInt(site), <<>>, "", "")
RErr(m, exc, msg) == R(m, "err", VNone, <<>>, exc, msg)
Exits(r) == r.kind \in {"return", "ext"}

\* Index of the global namespace (the first; sequences are indexed from 1).
GLOBAL_NS_IDX == 1
ns_idx(local_idx, scope) == IF scope = "global" THEN GLOBAL_NS_IDX ELSE local_idx

\* What print writes and what the host receives for a value.
Show(m, v) ==
    IF v.k = "ref"
    THEN [k |-> m.heap[v.n].kind, n |-> 0, s |-> "", items |-> m.heap[v.n].items]
    ELSE [k |-> v.k, n |-> v.n, s |-> v.s, items |-> <<>>]

py_type(m, v) == IF v.k = "ref" THEN m.heap[v.n].kind ELSE v.k
py_bool(m, v) ==
    CASE v.k = "none" -> FALSE
      [] v.k \in {"int", "bool"} -> v.n # 0
      [] v.k = "ref" -> m.heap[v.n].items # <<>> \/ m.heap[v.n].kind = "str"
      [] OTHER -> TRUE

\* The stashed return value of the external call at a call site.
StashIndex(m, site) == {i \in 1..Len(m.stash) : m.stash[i].site = site}

\* Builtins::call with no arguments: an exception type builds its instance,
\* the list type an empty list, int gives 0, len rejects the call.
builtin_call(m, name) ==
    CASE name \in {"ValueError", "TypeError"} -> RValue(m, VExc(name, 0))
      [] name = "list" -> RValue([m EXCEPT !.heap = allocate(@, "list", <<>>)], VRef(Len(m.heap) + 1))
      [] name = "int" -> RValue(m, VInt(0))
      [] OTHER -> RErr(m, "TypeError", "len() takes exactly one argument (0 given)")

\* User functions: name, parameter names, namespace size and body.
Stmt(kind, target, e1, e2, body, or_else) ==
    [kind |-> kind, target |-> target, e1 |-> e1, e2 |-> e2, body |-> body, or_else |-> or_else]
Return(e) == Stmt("Return", NoExpr, e, NoExpr, <<>>, <<>>)
Function(name, params, namespace_size, body) ==
    [name |-> name, params |-> params, namespace_size |-> namespace_size, body |-> body]

\* The value of a step bound to a name for the steps that follow it.
With(r, F(_)) == F(r)
\* The ? operator and the frame_ext_call! macro: an error or a pending
\* external call ends the enclosing function, a value goes on.
frame_ext_call(r, F(_)) == IF r.kind = "value" THEN F(r) ELSE r

RECURSIVE evaluate_use(_, _, _)
RECURSIVE evaluate_args(_, _, _, _)
RECURSIVE execute(_, _, _)
RECURSIVE execute_from(_, _, _, _, _)
RECURSIVE for_loop(_, _, _, _, _)

\* Evaluate the argument expressions left to right; an exit or error in one
\* releases the values already computed.
evaluate_args(m, li, args, acc) ==
    IF args = <<>> THEN R(m, "value", VNone, acc, "", "")
    ELSE With(evaluate_use(m, li, Head(args)), LAMBDA r :
            IF r.kind = "value" THEN evaluate_args(r.m, li, Tail(args), Append(acc, r.v))
            ELSE [r EXCEPT !.m = drop_all_with_heap(@, acc)])

\* EvaluateExpr::evaluate_use: the owned value of an expression.
evaluate_use(m, li, e) ==
    CASE e.op = "const" -> RValue(m, VInt(e.n))
      [] e.op = "none" -> RValue(m, VNone)
      [] e.op = "builtin" -> RValue(m, VBuiltin(e.s))
      [] e.op = "exc" -> RValue(m, VExc(e.s, e.n))
      [] e.op = "fstring" ->
            RValue([m EXCEPT !.heap = allocate(@, "str", <<>>)], VRef(Len(m.heap) + 1))
      [] e.op = "name" ->
            LET v == m.nss[ns_idx(li, e.s)][e.n] IN
            IF v.k = "undefined" THEN RErr(m, "NameError", "") ELSE RValue(clone_with_heap(m, v), v)
      [] e.op = "list" ->
            frame_ext_call(evaluate_args(m, li, e.args, <<>>), LAMBDA r :
                RValue([r.m EXCEPT !.heap = allocate(@, "list", r.vs)], VRef(Len(r.m.heap) + 1)))
      [] e.op = "add" ->
            frame_ext_call(evaluate_args(m, li, e.args, <<>>), LAMBDA r :
                IF r.vs[1].k = "int" /\ r.vs[2].k = "int" THEN RValue(r.m, VInt(r.vs[1].n + r.vs[2].n))
                ELSE RErr(drop_all_with_heap(r.m, r.vs), "TypeError", "unsupported operand type(s) for +"))
      [] e.op = "ext" ->
            IF m.sync THEN RValue(m, VInt(m.reply))
            ELSE IF StashIndex(m, e.n) # {}
                 THEN LET v == m.stash[CHOOSE i \in StashIndex(m, e.n) : TRUE].v IN
                      RValue(clone_with_heap([m EXCEPT !.returns.consumed = @ + 1], v), v)
                 ELSE RExt(m, e.n)
      [] e.op = "print" ->
            frame_ext_call(evaluate_use(m, li, e.args[1]), LAMBDA r :
                RValue(drop_with_heap([r.m EXCEPT !.out = Append(@, Show(r.m, r.v))], r.v), VNone))
      [] OTHER -> RErr(m, "InternalError", "")

\* EvaluateExpr::evaluate_discard and evaluate_bool.
evaluate_discard(m, li, e) ==
    frame_ext_call(evaluate_use(m, li, e), LAMBDA r : RNone(drop_with_heap(r.m, r.v)))
evaluate_bool(m, li, e) ==
    frame_ext_call(evaluate_use(m, li, e), LAMBDA r :
        RValue(drop_with_heap(r.m, r.v), VBool(py_bool(r.m, r.v))))

\* ---------------------------------------------------------------------
\* Statements (run_frame.rs)
\* ---------------------------------------------------------------------
ExprStmt(e) == Stmt("Expr", NoExpr, e, NoExpr, <<>>, <<>>)
Raise(e) == Stmt("Raise", NoExpr, e, NoExpr, <<>>, <<>>)
AssertStmt(test, msg) == Stmt("Assert", NoExpr, test, msg, <<>>, <<>>)
Assign(target, e) == Stmt("Assign", target, e, NoExpr, <<>>, <<>>)
SubscriptAssign(target, index, value) == Stmt("SubscriptAssign", target, index, value, <<>>, <<>>)
OpAssign(target, op, e) ==
    [kind |-> "OpAssign", target |-> target, op |-> op, e1 |-> e, e2 |-> NoExpr,
     body |-> <<>>, or_else |-> <<>>]
For(target, iter, body, or_else) == Stmt("For", target, iter, NoExpr, body, or_else)
If(test, body, or_else) == Stmt("If", NoExpr, test, NoExpr, body, or_else)
CallStmt(f, args) == Stmt("Call", NoExpr, Call(f, args), NoExpr, <<>>, <<>>)

\* RunFrame::execute_expr and execute_expr_bool.
execute_expr(m, li, e) == evaluate_use(m, li, e)
execute_expr_bool(m, li, e) == evaluate_bool(m, li, e)

\* Replace a namespace slot, releasing the value it held.
replace_slot(m, idx, slot, v) ==
    drop_with_heap([m EXCEPT !.nss[idx][slot] = v], m.nss[idx][slot])

\* RunFrame::raise.
raise(m, li, exc_expr) ==
    IF exc_expr.op = "absent" THEN RErr(m, "InternalError", "plain raise not yet supported")
    ELSE frame_ext_call(execute_expr(m, li, exc_expr), LAMBDA value :
            IF value.v.k = "exc" THEN RErr(value.m, value.v.s, exc_arg(value.v))
            ELSE IF value.v.k = "builtin"
                 THEN frame_ext_call(builtin_call(value.m, value.v.s), LAMBDA result :
                        IF result.v.k = "exc" THEN RErr(result.m, result.v.s, exc_arg(result.v))
                        ELSE RErr(drop_with_heap(result.m, value.v), "TypeError",
                                  "exceptions must derive from BaseException"))
                 ELSE RErr(drop_with_heap(value.m, value.v), "TypeError",
                           "exceptions must derive from BaseException"))

\* RunFrame::assert_.
assert_(m, li, test, msg) ==
    frame_ext_call(execute_expr_bool(m, li, test), LAMBDA ok :
        IF ok.v.n = 0
        THEN IF msg.op # "absent"
             THEN frame_ext_call(execute_expr(ok.m, li, msg), LAMBDA msg_value :
                    RErr(msg_value.m, "AssertionError", "message"))
             ELSE RErr(ok.m, "AssertionError", "")
        ELSE RNone(ok.m))

\* ExcType::binary_type_error: the operator and both type names.
operand_type_error(op, lhs_type, rhs_type) ==
    "unsupported operand type(s) for " \o op \o ": '" \o lhs_type \o "' and '" \o rhs_type \o "'"

PyResult(this, kind, v, exc, msg) == [vm |-> this, kind |-> kind, v |-> v, exc |-> exc, msg |-> msg]
IsList(this, v) == v.k = "ref" /\ this.heap[v.n].kind = "list"
\* Value::py_add .. py_pow on borrowed operands: a value, unsupported, or an
\* arithmetic error.  Integers and, for +, lists.
py_arith(this, op, lhs, rhs) ==
    IF lhs.k = "int" /\ rhs.k = "int"
    THEN CASE op = "+" -> PyResult(this, "some", VInt(lhs.n + rhs.n), "", "")
           [] op = "-" -> PyResult(this, "some", VInt(lhs.n - rhs.n), "", "")
           [] op = "*" -> PyResult(this, "some", VInt(lhs.n * rhs.n), "", "")
           [] op = "** or pow()" -> PyResult(this, "some", VInt(IF rhs.n = 0 THEN 1 ELSE lhs.n ^ rhs.n), "", "")
           [] rhs.n = 0 -> PyResult(this, "err", VNone, "ZeroDivisionError", "division by zero")
           [] op = "/" ->
                PyResult(this, "some", Val("float", 0, ToString(lhs.n) \o "/" \o ToString(rhs.n)), "", "")
           [] op = "//" -> PyResult(this, "some", VInt(lhs.n \div rhs.n), "", "")
           [] OTHER -> PyResult(this, "some", VInt(lhs.n % rhs.n), "", "")
    ELSE IF op = "+" /\ IsList(this, lhs) /\ IsList(this, rhs)
    THEN PyResult([this EXCEPT !.heap = allocate(@, "list",
                                                this.heap[lhs.n].items \o this.heap[rhs.n].items)],
                  "some", VRef(Len(this.heap) + 1), "", "")
    ELSE PyResult(this, "none", VNone, "", "")

\* Value::py_bitwise (and) on borrowed operands: a value or TypeError.
py_bitwise(this, lhs, rhs) ==
    IF lhs.k = "int" /\ rhs.k = "int"
    THEN PyResult(this, "some",
                  VInt((lhs.n % 2) * (rhs.n % 2) + 2 * ((lhs.n \div 2) % 2) * ((rhs.n \div 2) % 2)),
                  "", "")
    ELSE PyResult(this, "err", VNone, "TypeError",
                  operand_type_error("&", py_type(this, lhs), py_type(this, rhs)))

\* Value::py_iadd: owns the value it is given; a list is extended in place
\* by a list, refuses a value that is not iterable, and every other left
\* operand declines.
py_iadd(this, lhs, given) ==
    IF IsList(this, lhs) /\ IsList(this, given)
    THEN PyResult(drop_with_heap([this EXCEPT !.heap[lhs.n].items = @ \o this.heap[given.n].items],
                                 given),
                  "true", VNone, "", "")
    ELSE IF IsList(this, lhs)
    THEN PyResult(drop_with_heap(this, given), "err", VNone, "TypeError", "object is not iterable")
    ELSE PyResult(drop_with_heap(this, given), "false", VNone, "", "")

\* Heap::get_cell_value: an owned copy of the value the cell holds.
get_cell_value(m, cell_id) == clone_with_heap(m, m.heap[cell_id].items[1])
\* Heap::set_cell_value: the cell takes the value and drops the one it held.
set_cell_value(m, cell_id, v) ==
    drop_with_heap([m EXCEPT !.heap[cell_id].items = <<v>>], m.heap[cell_id].items[1])

\* RunFrame::assign.
assign(m, li, target, expr) ==
    frame_ext_call(execute_expr(m, li, expr), LAMBDA new_value :
        IF target.s = "cell"
        THEN RNone(set_cell_value(new_value.m, new_value.m.nss[ns_idx(li, target.s)][target.n].n,
                                  new_value.v))
        ELSE RNone(replace_slot(new_value.m, ns_idx(li, target.s), target.n, new_value.v)))

\* Operator: the operators of an augmented assignment, the symbol of the
\* binary operation and the symbol of the assignment.
Operators == {"Add", "Sub", "Mult", "Div", "FloorDiv", "Mod", "Pow", "MatMult"}
OpSymbol(op) ==
    CASE op = "Add" -> "+" [] op = "Sub" -> "-" [] op = "Mult" -> "*" [] op = "Div" -> "/"
      [] op = "FloorDiv" -> "//" [] op = "Mod" -> "%" [] op = "Pow" -> "** or pow()"
      [] OTHER -> "@"
AugSymbol(op) == IF op = "Pow" THEN "**=" ELSE OpSymbol(op) \o "="
\* SimpleException::augmented_assign_type_error.
augmented_assign_type_error(op, target_type, rhs_type) ==
    operand_type_error(AugSymbol(op), target_type, rhs_type)

\* Releases counted by op_assign: of the right-hand value and of the copy
\* of the cell's value.
note_rhs(m) == [m EXCEPT !.opa.rhs = @ + 1]
note_copy(m) == [m EXCEPT !.opa.copy = @ + 1]

\* Value::py_iadd on the target in place: integers are added, the rest is
\* py_iadd on the heap; the value the target holds afterwards is v.
Value_py_iadd(m, target_val, rhs) ==
    IF target_val.k = "int" /\ rhs.k = "int"
    THEN PyResult(m, "true", VInt(target_val.n + rhs.n), "", "")
    ELSE [py_iadd(m, target_val, rhs) EXCEPT !.v = target_val]

\* The operators op_assign implements besides Add.
BinaryAssignOps == {"Sub", "Mult", "Div", "FloorDiv", "Mod", "Pow"}
\* Value::py_sub .. py_pow as op_assign matches them: py_mod has no error.
py_binary(m, op, lhs, rhs) ==
    With(py_arith(m, OpSymbol(op), lhs, rhs), LAMBDA r :
        IF op = "Mod" /\ r.kind = "err" THEN PyResult(r.vm, "none", VNone, "", "") ELSE r)

\* RunFrame::op_assign, the local and global targets.
op_assign_slot(m, li, target, op, rhs, rhs_type) ==
    LET idx == ns_idx(li, target.s)
        target_val == m.nss[idx][target.n]
        target_type == py_type(m, target_val)
        type_error(this) ==
            RErr(this, "TypeError", augmented_assign_type_error(op, target_type, rhs_type))
    IN  IF target_val.k = "undefined" THEN RErr(m, "NameError", "")
        ELSE IF op = "Add"
        THEN With(Value_py_iadd(m, target_val, rhs), LAMBDA r :
                CASE r.kind = "err" -> RErr(note_rhs(r.vm), r.exc, r.msg)
                  [] r.kind = "true" -> RNone([note_rhs(r.vm) EXCEPT !.nss[idx][target.n] = r.v])
                  [] OTHER -> type_error(note_rhs(r.vm)))
        ELSE IF op \in BinaryAssignOps
        THEN With(py_binary(m, op, target_val, rhs), LAMBDA r :
                IF r.kind = "err" THEN RErr(r.vm, r.exc, r.msg)
                ELSE With(note_rhs(drop_with_heap(r.vm, rhs)), LAMBDA d :
                        IF r.kind = "some" THEN RNone(replace_slot(d, idx, target.n, r.v))
                        ELSE type_error(d)))
        ELSE RErr(m, "InternalError", "assign operator not yet implemented")

\* RunFrame::op_assign, the cell target: read through the cell, modify,
\* write back.
op_assign_cell(m, li, target, op, rhs, rhs_type) ==
    LET cell_id == m.nss[li][target.n].n
        cell_value == m.heap[cell_id].items[1]
        cell_value_type == py_type(m, cell_value)
        type_error(this) ==
            RErr(this, "TypeError", augmented_assign_type_error(op, cell_value_type, rhs_type))
    IN  IF op = "Add"
        THEN With(Value_py_iadd(get_cell_value(m, cell_id), cell_value, rhs), LAMBDA r :
                CASE r.kind = "err" -> RErr(note_rhs(r.vm), r.exc, r.msg)
                  [] r.kind = "true" -> RNone(note_copy(set_cell_value(note_rhs(r.vm), cell_id, r.v)))
                  [] OTHER -> type_error(note_rhs(r.vm)))
        ELSE IF op \in BinaryAssignOps
        THEN With(py_binary(get_cell_value(m, cell_id), op, cell_value, rhs), LAMBDA r :
                IF r.kind = "err" THEN RErr(r.vm, r.exc, r.msg)
                ELSE With(note_copy(drop_with_heap(note_rhs(drop_with_heap(r.vm, rhs)), cell_value)),
                          LAMBDA d :
                            IF r.kind = "some" THEN RNone(set_cell_value(d, cell_id, r.v))
                            ELSE type_error(d)))
        ELSE RErr(get_cell_value(m, cell_id), "InternalError", "assign operator not yet implemented")

\* RunFrame::op_assign.
op_assign(m, li, target, op, expr) ==
    frame_ext_call(execute_expr(m, li, expr), LAMBDA rhs :
        IF target.s = "cell"
        THEN op_assign_cell(rhs.m, li, target, op, rhs.v, py_type(rhs.m, rhs.v))
        ELSE op_assign_slot(rhs.m, li, target, op, rhs.v, py_type(rhs.m, rhs.v)))

\* Frame::op_assign of the first tree walker: Add alone is implemented and
\* the message takes both types from the target.
Frame_op_assign(m, li, target, op, expr) ==
    frame_ext_call(execute_expr(m, li, expr), LAMBDA rhs :
        LET target_val == rhs.m.nss[ns_idx(li, target.s)][target.n] IN
        IF target_val.k = "undefined" THEN RErr(rhs.m, "NameError", "")
        ELSE IF op # "Add"
        THEN RErr(rhs.m, "InternalError", "Assign operator not yet implemented")
        ELSE With(Value_py_iadd(rhs.m, target_val, rhs.v), LAMBDA ok :
                IF ok.kind = "true"
                THEN RNone([note_rhs(ok.vm) EXCEPT !.nss[ns_idx(li, target.s)][target.n] = ok.v])
                ELSE LET target_type == py_type(ok.vm, target_val)
                         right_type == py_type(ok.vm, target_val)
                     IN  RErr(note_rhs(ok.vm), "TypeError",
                              operand_type_error(OpSymbol(op), target_type, right_type))))

\* HeapData::py_setitem on a list: the key is an index in range, the item
\* it replaces is released; anything else is an error that releases key
\* and value.
py_setitem(m, id, key, val) ==
    IF m.heap[id].kind = "list" /\ key.k = "int" /\ key.n >= 0 /\ key.n < Len(m.heap[id].items)
    THEN RNone(drop_with_heap([m EXCEPT !.heap[id].items[key.n + 1] = val],
                              m.heap[id].items[key.n + 1]))
    ELSE RErr(drop_all_with_heap(m, <<key, val>>),
              IF m.heap[id].kind = "list" /\ key.k = "int" THEN "IndexError" ELSE "TypeError", "")

\* RunFrame::subscript_assign.
subscript_assign(m, li, target, index, value) ==
    frame_ext_call(execute_expr(m, li, index), LAMBDA key :
        frame_ext_call(execute_expr(key.m, li, value), LAMBDA val :
            LET target_val == val.m.nss[ns_idx(li, target.s)][target.n] IN
            IF target_val.k = "undefined" THEN RErr(val.m, "NameError", "")
            ELSE IF target_val.k = "ref" THEN py_setitem(val.m, target_val.n, key.v, val.v)
            ELSE RErr(val.m, "TypeError", "object does not support item assignment")))

\* ForIterator: the iterated value and the index of the next element.
ForIterator_new(m, iter_value) ==
    IF iter_value.k = "ref"
    THEN R(m, "value", iter_value, <<>>, "", "")
    ELSE RErr(drop_with_heap(m, iter_value), "TypeError", "object is not iterable")
ForIterator_has_next(m, for_iter) == for_iter.index < Len(m.heap[for_iter.value.n].items)
ForIterator_item(m, for_iter) == m.heap[for_iter.value.n].items[for_iter.index + 1]
ForIterator_advance(for_iter) == [for_iter EXCEPT !.index = @ + 1]
ForIterator_decr(for_iter) == [for_iter EXCEPT !.index = @ - 1]

\* The loop with the iterator saved as it is when the body exits.
for_loop_no_rewind(started, li, for_iter, target, body) ==
    With(begin_iteration(started), LAMBDA m :
    IF m.heap[for_iter.value.n].kind = "free"
    THEN RErr(m, "InternalError", "data already freed")
    ELSE IF ~ForIterator_has_next(m, for_iter)
         THEN RNone(note_iter_drop(drop_with_heap(m, for_iter.value)))
    ELSE LET value == ForIterator_item(m, for_iter)
             advanced == ForIterator_advance(for_iter)
         IN  With(execute(hold(replace_slot(clone_with_heap(note_bind(m, for_iter), value),
                                            li, target.n, value),
                               for_iter.value), li, body),
                  LAMBDA held :
                  With([held EXCEPT !.m = release(@)], LAMBDA r :
                    IF Exits(r)
                    THEN [r EXCEPT !.m.trk =
                            tracker_set_clause_state(@, ClauseFor(advanced)),
                                   !.m.clauses.for_exits = @ + 1,
                                   !.m.clauses.for_returns = IF r.kind = "return" THEN @ + 1 ELSE @]
                    ELSE IF r.kind = "err"
                         THEN [r EXCEPT !.m = note_iter_drop(drop_with_heap(@, for_iter.value))]
                    ELSE for_loop(r.m, li, advanced, target, body))))

\* RunFrame::for_: the loop of lines 600-633, then the release of the
\* iterator; the or_else block is not used.
for_loop(started, li, for_iter, target, body) ==
    With(begin_iteration(started), LAMBDA m :
    IF m.heap[for_iter.value.n].kind = "free"
    THEN RErr(m, "InternalError", "data already freed")
    ELSE IF ~ForIterator_has_next(m, for_iter)
         THEN RNone(note_iter_drop(drop_with_heap(m, for_iter.value)))
    ELSE LET value == ForIterator_item(m, for_iter)
             advanced == ForIterator_advance(for_iter)
         IN  With(execute(hold(replace_slot(clone_with_heap(note_bind(m, for_iter), value),
                                            li, target.n, value),
                               for_iter.value), li, body),
                  LAMBDA held :
                  With([held EXCEPT !.m = release(@)], LAMBDA r :
                    IF Exits(r)
                    THEN [r EXCEPT !.m.trk =
                            tracker_set_clause_state(@, ClauseFor(ForIterator_decr(advanced))),
                                   !.m.clauses.for_exits = @ + 1,
                                   !.m.clauses.for_returns = IF r.kind = "return" THEN @ + 1 ELSE @]
                    ELSE IF r.kind = "err"
                         THEN [r EXCEPT !.m = note_iter_drop(drop_with_heap(@, for_iter.value))]
                    ELSE for_loop(r.m, li, advanced, target, body))))

for_(m, li, clause_state, target, iter, body, or_else) ==
    IF clause_state.kind = "for"
    THEN for_loop([m EXCEPT !.clauses.for_resumed = @ + 1, !.clauses.rebind = TRUE],
                  li, clause_state.iter, target, body)
    ELSE frame_ext_call(execute_expr(m, li, iter), LAMBDA iter_value :
            frame_ext_call(ForIterator_new([iter_value.m EXCEPT !.clauses.iterables = @ + 1],
                                           iter_value.v), LAMBDA created :
                for_loop(note_start(clear_ext_return_values([created.m EXCEPT !.clauses.iters = @ + 1])), li,
                         [value |-> created.v, index |-> 0], target, body)))

\* An if statement that evaluates its test whatever the clause state, and
\* keeps the stash.
if_retested(m, li, clause_state, test, body, or_else) ==
    frame_ext_call(frame_ext_call(execute_expr_bool(m, li, test), LAMBDA t :
                        RValue([t.m EXCEPT !.clauses.tests = @ + 1], t.v)),
                   LAMBDA is_true :
        With(execute(is_true.m, li, IF is_true.v.n = 1 THEN body ELSE or_else), LAMBDA r :
            IF Exits(r) THEN [r EXCEPT !.m.trk = tracker_set_clause_state(@, ClauseIf(is_true.v.n = 1)),
                                       !.m.clauses.if_exits = @ + 1]
            ELSE r))

\* RunFrame::if_.
if_(m, li, clause_state, test, body, or_else) ==
    frame_ext_call(IF clause_state.kind = "if"
                   THEN RValue([m EXCEPT !.clauses.if_resumed = @ + 1], VBool(clause_state.test))
                   ELSE frame_ext_call(execute_expr_bool(m, li, test), LAMBDA t :
                            RValue(note_start(clear_ext_return_values([t.m EXCEPT !.clauses.tests = @ + 1])),
                                   t.v)),
                   LAMBDA is_true :
        With(execute(is_true.m, li, IF is_true.v.n = 1 THEN body ELSE or_else), LAMBDA r :
            IF Exits(r) THEN [r EXCEPT !.m.trk = tracker_set_clause_state(@, ClauseIf(is_true.v.n = 1)),
                                       !.m.clauses.if_exits = @ + 1]
            ELSE r))

\* string_repr of a parameter name.
string_repr(s) == "'" \o s \o "'"
\* join of the representations of names with a separator.
RECURSIVE join(_, _)
join(names, sep) ==
    IF Len(names) = 0 THEN ""
    ELSE IF Len(names) = 1 THEN string_repr(names[1])
    ELSE string_repr(names[1]) \o sep \o join(Tail(names), sep)

\* The message of a wrong argument count with "were" for one argument too.
arity_message_were(f, given) ==
    IF given <= Len(f.params)
    THEN f.name \o "() missing " \o ToString(Len(f.params) - given)
         \o " required positional argument" \o (IF Len(f.params) - given = 1 THEN "" ELSE "s")
         \o ": "
         \o (IF Len(f.params) - given > 1
             THEN join(SubSeq(f.params, given + 1, Len(f.params) - 1), ", ") \o ", and "
             ELSE "")
         \o string_repr(f.params[Len(f.params)])
    ELSE f.name \o "() takes " \o ToString(Len(f.params)) \o " positional argument"
         \o (IF Len(f.params) = 1 THEN "" ELSE "s")
         \o " but " \o ToString(given) \o " were given"

\* Function::call, the else branch: the message for given arguments where
\* the function has a different number of parameters.
arity_message(f, given) ==
    IF given <= Len(f.params)
    THEN f.name \o "() missing " \o ToString(Len(f.params) - given)
         \o " required positional argument" \o (IF Len(f.params) - given = 1 THEN "" ELSE "s")
         \o ": "
         \o (IF Len(f.params) - given > 1
             THEN join(SubSeq(f.params, given + 1, Len(f.params) - 1), ", ") \o ", and "
             ELSE "")
         \o string_repr(f.params[Len(f.params)])
    ELSE f.name \o "() takes " \o ToString(Len(f.params)) \o " positional argument"
         \o (IF Len(f.params) = 1 THEN "" ELSE "s")
         \o " but " \o ToString(given) \o " " \o (IF given = 1 THEN "was" ELSE "were")
         \o " given"

\* Namespaces::push.
Namespaces_push(m, values) ==
    [m EXCEPT !.nss = Append(@, values), !.pushed = @ + 1,
              !.frames.slots = @ + Len(values)]

\* The last namespace removed with its slots left as they are.
pop_without_heap(m) ==
    [m EXCEPT !.nss = SubSeq(@, 1, Len(@) - 1),
              !.frames.popped = @ + 1,
              !.frames.global_popped = @ \/ Len(m.nss) = 1]

\* Namespaces::pop_with_heap: the last namespace is removed and every one
\* of its values dropped.
pop_with_heap(m) ==
    [drop_all_with_heap(m, m.nss[Len(m.nss)])
        EXCEPT !.nss = SubSeq(@, 1, Len(@) - 1),
               !.frames.popped = @ + 1,
               !.frames.released = @ + Len(m.nss[Len(m.nss)]),
               !.frames.global_popped = @ \/ Len(m.nss) = 1]

\* Function::call: inject the arguments into a new namespace, run the body
\* in a frame on it and pop the namespace; a wrong argument count returns
\* TypeError from the else branch, the injected values still in the vector.
Function_call(m, f, args) ==
    IF Len(args) = Len(f.params)
    THEN LET local_namespace == [i \in 1..f.namespace_size |-> IF i <= Len(args) THEN args[i] ELSE VUndefined]
         IN  With(execute([Namespaces_push(m, local_namespace) EXCEPT !.trk = NoTracker],
                          Len(m.nss) + 1, f.body),
                  LAMBDA r :
                    LET popped == [pop_with_heap(r.m)
                                      EXCEPT !.trk = m.trk,
                                             !.frames.unwound = @ /\ Len(r.m.nss) = Len(m.nss) + 1]
                    IN  IF r.kind = "err" THEN [r EXCEPT !.m = popped] ELSE RValue(popped, r.v))
    ELSE RErr(m, "TypeError", arity_message(f, Len(args)))

\* def f(a): return a
\* def g(a, b): print(7); return 0
\* def h(a, b, c): print(7); return 0
\* def k(): print(7); return 0
\* def outer(a): f(a); return a
\* def thrower(a): raise ValueError(1)
\* def caller(a): thrower(a); return 0
Functions ==
    <<Function("f", <<"a">>, 1, <<Return(Name(1, "local"))>>),
      Function("g", <<"a", "b">>, 2, <<ExprStmt(print_call(Const(7))), Return(Const(0))>>),
      Function("h", <<"a", "b", "c">>, 3, <<ExprStmt(print_call(Const(7))), Return(Const(0))>>),
      Function("k", <<>>, 0, <<ExprStmt(print_call(Const(7))), Return(Const(0))>>),
      Function("outer", <<"a">>, 1,
               <<CallStmt(1, <<Name(1, "local")>>), Return(Name(1, "local"))>>),
      Function("thrower", <<"a">>, 1, <<Raise(ExcInstance("ValueError", 1))>>),
      Function("caller", <<"a">>, 2, <<CallStmt(6, <<Name(1, "local")>>), Return(Const(0))>>)>>

\* A call statement f(args): the arguments, the call, the result discarded.
call_statement(m, li, e) ==
    frame_ext_call(evaluate_args(m, li, e.args, <<>>), LAMBDA argvalues :
        frame_ext_call(Function_call(argvalues.m, Functions[e.n], argvalues.vs), LAMBDA r :
            RNone(drop_with_heap(r.m, r.v))))

\* RunFrame::execute_node, the match on the node.
execute_match(m, li, node, clause_state) ==
    CASE node.kind = "Expr" -> evaluate_discard(m, li, node.e1)
      [] node.kind = "Call" -> call_statement(m, li, node.e1)
      [] node.kind = "Return" ->
            frame_ext_call(execute_expr(m, li, node.e1), LAMBDA r : RReturn(r.m, r.v))
      [] node.kind = "Raise" -> raise(m, li, node.e1)
      [] node.kind = "Assert" -> assert_(m, li, node.e1, node.e2)
      [] node.kind = "Assign" -> assign(m, li, node.target, node.e1)
      [] node.kind = "OpAssign" ->
            IF m.walker = "run" THEN Frame_op_assign(m, li, node.target, node.op, node.e1)
            ELSE op_assign(m, li, node.target, node.op, node.e1)
      [] node.kind = "SubscriptAssign" -> subscript_assign(m, li, node.target, node.e1, node.e2)
      [] node.kind = "For" -> for_(m, li, clause_state, node.target, node.e1, node.body, node.or_else)
      [] node.kind = "If" -> if_(m, li, clause_state, node.e1, node.body, node.or_else)
      [] OTHER -> RErr(m, "InternalError", "")

\* A statement executed without consulting the tracker.
execute_node_unchecked(m, li, node, clause_state) ==
    execute_match(begin_node(m), li, node, clause_state)

\* RunFrame::execute_node: the time check at the statement boundary, the
\* collection if the tracker asks for one, then the statement.
execute_node(m, li, node, clause_state) ==
    IF ~check_time(m.rt) THEN RErr(m, "UncatchableExc", "time limit exceeded")
    ELSE execute_match(begin_node(IF should_gc(m.rt)
                                  THEN collect_garbage(m, iter_heap_ids(m))
                                  ELSE m), li, node, clause_state)

\* The block with the stash left as it is after each completed node.
execute_from_uncleared(m, li, nodes, i, clause_state) ==
    IF i >= Len(nodes) THEN RNone(m)
    ELSE With(execute_node(m, li, nodes[i + 1], clause_state), LAMBDA r :
            IF r.kind = "err" THEN r
            ELSE IF Exits(r) THEN [r EXCEPT !.m.trk = tracker_record(@, i)]
            ELSE execute_from(IF i + 1 < Len(nodes) THEN note_start(r.m) ELSE r.m,
                              li, nodes, i + 1, NoClause))

\* RunFrame::execute: start at the tracker's position; an exit records the
\* index of the node it left; a completed node clears the stash.
execute_from(m, li, nodes, i, clause_state) ==
    IF i >= Len(nodes) THEN RNone(m)
    ELSE With(execute_node(m, li, nodes[i + 1], clause_state), LAMBDA r :
            IF r.kind = "err" THEN r
            ELSE IF Exits(r) THEN [r EXCEPT !.m.trk = tracker_record(@, i)]
            ELSE execute_from(IF i + 1 < Len(nodes) THEN note_start(clear_ext_return_values(r.m))
                              ELSE clear_ext_return_values(r.m),
                              li, nodes, i + 1, NoClause))

execute(m, li, nodes) ==
    LET position == tracker_next(m.trk) IN
    execute_from([m EXCEPT !.trk = tracker_after_next(@)], li, nodes, position.index, position.clause)

\* ---------------------------------------------------------------------
\* VM binary operations on the operand stack  (bytecode/vm/binary.rs)
\* The stack holds values, the heap the records they reference.  lhs_drops
\* and rhs_drops count the releases of the two operands popped, pushes the
\* values pushed.
\* ---------------------------------------------------------------------
VM_top(this) == this.stack[Len(this.stack)]
VM_pop(this) == [this EXCEPT !.stack = SubSeq(@, 1, Len(@) - 1)]
VM_push(this, v) == [this EXCEPT !.stack = Append(@, v), !.pushes = @ + 1]
VM_err(this, exc, msg) == [this EXCEPT !.ok = FALSE, !.exc = exc, !.msg = msg]
\* defer_drop!(lhs, this) and defer_drop!(rhs, this) taking effect when the
\* function returns, and the HeapGuard of an lhs that was not taken back.
drop_lhs(this, lhs) == [drop_with_heap(this, lhs) EXCEPT !.lhs_drops = @ + 1]
drop_rhs(this, rhs) == [drop_with_heap(this, rhs) EXCEPT !.rhs_drops = @ + 1]
defer_drops(this, lhs, rhs) == drop_rhs(drop_lhs(this, lhs), rhs)

\* What the match on the result of the operation does.
VM_finish(r, op, lhs, rhs) ==
    CASE r.kind = "some" -> VM_push(r.vm, r.v)
      [] r.kind = "none" ->
            VM_err(r.vm, "TypeError",
                   operand_type_error(op, py_type(r.vm, lhs), py_type(r.vm, rhs)))
      [] OTHER -> VM_err(r.vm, r.exc, r.msg)

\* VM::binary_add, binary_sub, binary_mult, binary_div, binary_floordiv,
\* binary_mod, binary_pow: pop rhs, pop lhs, both under defer_drop!, and
\* match on the result.
VM_binary_op(self, op) ==
    defer_drops(VM_finish(py_arith(VM_pop(VM_pop(self)), op, VM_top(VM_pop(self)), VM_top(self)),
                          op, VM_top(VM_pop(self)), VM_top(self)),
                VM_top(VM_pop(self)), VM_top(self))

\* VM::binary_bitwise.
VM_binary_bitwise(self) ==
    defer_drops(VM_finish(py_bitwise(VM_pop(VM_pop(self)), VM_top(VM_pop(self)), VM_top(self)),
                          "&", VM_top(VM_pop(self)), VM_top(self)),
                VM_top(VM_pop(self)), VM_top(self))

\* In-place addition that releases the left operand on success too.
VM_inplace_add_dropping(self) ==
    LET rhs == VM_top(self)
        lhs == VM_top(VM_pop(self))
        iadd == py_iadd(clone_with_heap(VM_pop(VM_pop(self)), rhs), lhs, rhs)
    IN  CASE iadd.kind = "err" -> defer_drops(VM_err(iadd.vm, iadd.exc, iadd.msg), lhs, rhs)
          [] iadd.kind = "true" -> defer_drops(VM_push(iadd.vm, lhs), lhs, rhs)
          [] OTHER -> defer_drops(VM_finish(py_arith(iadd.vm, "+", lhs, rhs), "+=", lhs, rhs), lhs, rhs)

\* VM::inplace_add: rhs under defer_drop!, lhs in a HeapGuard that is taken
\* apart when the in-place operation succeeded.
VM_inplace_add(self) ==
    LET rhs == VM_top(self)
        lhs == VM_top(VM_pop(self))
        iadd == py_iadd(clone_with_heap(VM_pop(VM_pop(self)), rhs), lhs, rhs)
    IN  CASE iadd.kind = "err" -> defer_drops(VM_err(iadd.vm, iadd.exc, iadd.msg), lhs, rhs)
          [] iadd.kind = "true" -> drop_rhs(VM_push(iadd.vm, lhs), rhs)
          [] OTHER -> defer_drops(VM_finish(py_arith(iadd.vm, "+", lhs, rhs), "+=", lhs, rhs), lhs, rhs)

\* VM::binary_matmul.
VM_binary_matmul(self) ==
    drop_rhs(drop_lhs(VM_err(VM_pop(VM_pop(self)), "NotImplementedError",
                             "matrix multiplication (@) is not supported"),
                      VM_top(VM_pop(self))),
             VM_top(self))

\* ---------------------------------------------------------------------
\* Temporal machine: a program that builds two temporal values with the
\* Python-level constructors and applies up to MaxOps operators to them,
\* keeping the result in x.  An exception ends the program.
\* ---------------------------------------------------------------------
NoRes == [op |-> "", ok |-> TRUE, exc |-> "", msg |-> "", n |-> 0, bool |-> FALSE,
          lhs |-> NoValue, rhs |-> NoValue, total |-> Micros(0, 0, 0)]
Outcome(op, r, lhs, rhs, total) ==
    [op |-> op, ok |-> r.ok, exc |-> r.exc, msg |-> r.msg, n |-> r.n, bool |-> FALSE,
     lhs |-> lhs, rhs |-> rhs, total |-> total]

\* Ghost: the instant or day a date or datetime denotes, as an exact count.
Instant(v) ==
    IF v.kind = "date" THEN Micros(v.ordinal, 0, 0)
    ELSE IF v.datetime.offset_seconds.some
    THEN Micros(v.datetime.naive.d, v.datetime.naive.s - v.datetime.offset_seconds.v,
                v.datetime.naive.u)
    ELSE v.datetime.naive

\* Ghost: the exact microsecond total of a timedelta-valued `lhs op rhs`, from
\* the exact totals ex of the operands; zero when the result is no timedelta.
ExactResult(op, lhs, rhs, ex) ==
    IF lhs.kind = "timedelta" /\ rhs.kind = "timedelta"
    THEN (IF op = "-" THEN MicrosSub(ex.x, ex.y) ELSE MicrosAdd(ex.x, ex.y))
    ELSE IF op = "-" /\ lhs.kind = rhs.kind /\ lhs.kind \in {"date", "datetime"}
    THEN MicrosSub(Instant(lhs), Instant(rhs))
    ELSE Micros(0, 0, 0)

TDays == {MIN_TIMEDELTA_DAYS - 1, MIN_TIMEDELTA_DAYS, -1, 0, 1, MAX_TIMEDELTA_DAYS,
          MAX_TIMEDELTA_DAYS + 1}
TSeconds == {-1, 0, DAY_SECONDS}
TMicros == {-1, 0, MICROS_PER_SECOND}
DYears == {0, 1, 2024, 9999, 10000}
DMonthDays == {<<0, 1>>, <<1, 0>>, <<1, 1>>, <<2, 29>>, <<2, 30>>, <<12, 31>>, <<12, 32>>, <<13, 1>>}
DTimes == {<<0, 0, 0, 0>>, <<23, 59, 59, 999999>>, <<24, 0, 0, 0>>, <<0, 60, 0, 0>>,
           <<0, 0, 60, 0>>, <<0, 0, 0, 1000000>>}
TzOffsets == {-DAY_SECONDS, MIN_TIMEZONE_OFFSET_SECONDS, 0, 3600, MAX_TIMEZONE_OFFSET_SECONDS,
              DAY_SECONDS}
TzNames == {NoName, Some("X")}
\* The tzinfo arguments a program can pass: None or a constructed timezone.
TzInfos ==
    {NoTz} \cup {TimeZone_new(o, NoName).v : o \in {o \in TzOffsets : TimeZone_new(o, NoName).ok}}
           \cup {TimeZone_new(3600, Some("X")).v}

InitT ==
    /\ x = NoValue
    /\ y = NoValue
    /\ exact = [x |-> Micros(0, 0, 0), y |-> Micros(0, 0, 0)]
    /\ res = NoRes
    /\ nops = 0
    /\ BridgeIdle
    /\ FrameIdle
    /\ PureIdle

Loading == res.ok /\ nops = 0 /\ y.kind = "none" /\ res.op \notin CmpOps

\* Store a constructor's outcome: the first value built is x, the second y.
Load(op, r, value, total) ==
    /\ res' = Outcome(op, r, NoValue, NoValue, total)
    /\ x' = IF r.ok /\ x.kind = "none" THEN value ELSE x
    /\ y' = IF r.ok /\ x.kind # "none" THEN value ELSE y
    /\ exact' = IF ~r.ok THEN exact
                ELSE IF x.kind = "none" THEN [exact EXCEPT !.x = total]
                ELSE [exact EXCEPT !.y = total]
    /\ UNCHANGED nops
    /\ UNCHANGED bvars
    /\ UNCHANGED fvars
    /\ UNCHANGED pvars

CallTimeDelta ==
    /\ Loading
    /\ \E days \in TDays, seconds \in TSeconds, microseconds \in TMicros :
          LET r == timedelta_init(days, seconds, microseconds)
          IN Load("timedelta", r, TimeDeltaValue(IF r.ok THEN r.v ELSE ZeroDelta),
                  Micros(days, seconds, microseconds))

CallDate ==
    /\ Loading
    /\ \E year \in DYears, md \in DMonthDays :
          LET r == Date_from_ymd(year, md[1], md[2])
          IN Load("date", r, DateValue(r.v), Micros(0, 0, 0))

CallDateTime ==
    /\ Loading
    /\ \E year \in DYears, md \in {<<1, 1>>, <<12, 31>>}, t \in DTimes, tzinfo \in TzInfos :
          LET r == from_components(year, md[1], md[2], t[1], t[2], t[3], t[4], tzinfo)
          IN Load("datetime", r, DateTimeValue(IF r.ok THEN r.v ELSE ZeroDateTime), Micros(0, 0, 0))

CallTimeZone ==
    /\ Loading
    /\ \E offset_seconds \in TzOffsets, name \in TzNames :
          LET r == TimeZone_new(offset_seconds, name)
          IN Load("timezone", r, TimeZoneValue(IF r.ok THEN r.v ELSE NoTz), Micros(0, 0, 0))

Running == res.ok /\ x.kind # "none" /\ y.kind # "none" /\ nops < MaxOps /\ res.op \notin CmpOps

Apply(op, r) ==
    /\ res' = Outcome(op, r, x, y, ExactResult(op, x, y, exact))
    /\ x' = IF r.ok THEN r.v ELSE x
    /\ exact' = IF r.ok THEN [exact EXCEPT !.x = ExactResult(op, x, y, exact)] ELSE exact
    /\ nops' = nops + 1
    /\ UNCHANGED y
    /\ UNCHANGED bvars
    /\ UNCHANGED fvars
    /\ UNCHANGED pvars

BinaryAdd == Running /\ Apply("+", binary_add(x, y))

BinarySub == Running /\ Apply("-", binary_sub(x, y))

InplaceAdd == Running /\ Apply("+=", inplace_add(x, y))

Compare ==
    /\ Running
    /\ \E op \in CmpOps :
          LET r == compare_op(op, x, y)
          IN res' = [op |-> op, ok |-> r.ok, exc |-> IF r.ok THEN "" ELSE "TypeError",
                     msg |-> IF r.ok THEN "" ELSE "not supported between instances", n |-> 0,
                     bool |-> r.bool, lhs |-> x, rhs |-> y, total |-> Micros(0, 0, 0)]
    /\ nops' = nops + 1
    /\ UNCHANGED <<x, y, exact>>
    /\ UNCHANGED bvars
    /\ UNCHANGED fvars
    /\ UNCHANGED pvars

NextT ==
    \/ CallTimeDelta
    \/ CallDate
    \/ CallDateTime
    \/ CallTimeZone
    \/ BinaryAdd
    \/ BinarySub
    \/ InplaceAdd
    \/ Compare

SpecTemporal == InitT /\ [][NextT]_vars

\* ---------------------------------------------------------------------
\* Properties of the temporal machine
\* ---------------------------------------------------------------------
Ordering == {"<", "<=", ">", ">="}
MixedAwareness(a, b) ==
    a.kind = "datetime" /\ b.kind = "datetime" /\ is_aware(a.datetime) # is_aware(b.datetime)

\* C4: when exactly one of two datetimes is aware, == (in either operand
\* order) is False, py_cmp has no result, and every ordering comparison
\* raises TypeError.
C4_AwareNaiveSeparated ==
    (res.op \in CmpOps /\ MixedAwareness(res.lhs, res.rhs)) =>
        /\ ~DateTime_py_eq(res.lhs.datetime, res.rhs.datetime)
        /\ ~DateTime_py_eq(res.rhs.datetime, res.lhs.datetime)
        /\ DateTime_py_cmp(res.lhs.datetime, res.rhs.datetime) = "None"
        /\ DateTime_py_cmp(res.rhs.datetime, res.lhs.datetime) = "None"
        /\ (res.op = "==" => (res.ok /\ ~res.bool))
        /\ (res.op \in Ordering => (~res.ok /\ res.exc = "TypeError"))

\* An aware datetime was ordered against a naive one that shows the same wall clock.
C4_Witness ==
    /\ res.op = "<"
    /\ MixedAwareness(res.lhs, res.rhs)
    /\ is_aware(res.lhs.datetime)
    /\ res.lhs.datetime.naive = res.rhs.datetime.naive
    /\ ~res.ok

\* C5: datetime - datetime raises TypeError "can't subtract offset-naive and
\* offset-aware datetimes" exactly when one operand is aware and the other
\* naive; otherwise it succeeds with a timedelta.
C5_SubtractAwareness ==
    (res.op = "-" /\ res.lhs.kind = "datetime" /\ res.rhs.kind = "datetime") =>
        IF MixedAwareness(res.lhs, res.rhs)
        THEN ~res.ok /\ res.exc = "TypeError" /\ res.msg = NaiveAwareMsg
        ELSE res.ok /\ x.kind = "timedelta" /\ total_microseconds(x.delta) = res.total

\* A naive datetime was subtracted from an aware one.
C5_Witness ==
    /\ res.op = "-"
    /\ MixedAwareness(res.lhs, res.rhs)
    /\ is_aware(res.lhs.datetime)
    /\ res.exc = "TypeError"

\* The canonical (days, seconds, microseconds) form of a timedelta value.
Canonical(c) ==
    /\ c[1] >= MIN_TIMEDELTA_DAYS /\ c[1] <= MAX_TIMEDELTA_DAYS
    /\ c[2] >= 0 /\ c[2] < DAY_SECONDS
    /\ c[3] >= 0 /\ c[3] < MICROS_PER_SECOND

\* C8: every timedelta built by constructors, + and - decomposes canonically
\* into (days, seconds, microseconds) that represent its exact total, and two
\* timedeltas are equal exactly when their components are equal.
C8_CanonicalTimedelta ==
    /\ x.kind = "timedelta" =>
          /\ Canonical(components(x.delta))
          /\ Micros(components(x.delta)[1], components(x.delta)[2], components(x.delta)[3]) = exact.x
    /\ y.kind = "timedelta" =>
          /\ Canonical(components(y.delta))
          /\ Micros(components(y.delta)[1], components(y.delta)[2], components(y.delta)[3]) = exact.y
    /\ (x.kind = "timedelta" /\ y.kind = "timedelta") =>
          (Value_py_eq(x, y) <=> components(x.delta) = components(y.delta))

\* A negative timedelta with a microsecond part came out of a subtraction.
C8_Witness ==
    /\ res.op = "-" /\ res.ok
    /\ res.lhs.kind = "timedelta" /\ res.rhs.kind = "timedelta"
    /\ x.kind = "timedelta"
    /\ components(x.delta)[1] < 0
    /\ components(x.delta)[3] > 0

OutOfDayRange(total) == total.d < MIN_TIMEDELTA_DAYS \/ total.d > MAX_TIMEDELTA_DAYS
TimeDeltaOp ==
    \/ res.op = "timedelta"
    \/ res.op \in {"+", "-", "+="} /\ res.lhs.kind = "timedelta" /\ res.rhs.kind = "timedelta"

\* C9: a timedelta construction, td + td, td - td or td += td whose exact
\* result has a day count outside +-999999999 raises OverflowError
\* "days=<n>; must have magnitude <= 999999999" naming that day count.
C9_OverflowAlwaysReported ==
    (TimeDeltaOp /\ OutOfDayRange(res.total)) =>
        (~res.ok /\ res.exc = "OverflowError" /\ res.msg = DaysMsg /\ res.n = res.total.d)

\* C9, as the code has it: construction, + and - report the overflow as
\* OverflowError with the exact day count; += reports it as TypeError.
C9_OverflowExceptAugmented ==
    (TimeDeltaOp /\ OutOfDayRange(res.total)) =>
        IF res.op = "+="
        THEN ~res.ok /\ res.exc = "TypeError"
        ELSE ~res.ok /\ res.exc = "OverflowError" /\ res.msg = DaysMsg /\ res.n = res.total.d

\* td += td overflowed.
C9_Witness ==
    /\ res.op = "+=" /\ res.lhs.kind = "timedelta" /\ res.rhs.kind = "timedelta"
    /\ OutOfDayRange(res.total)

DateOp ==
    \/ res.op \in {"+", "+="} /\ res.lhs.kind \in {"date", "datetime"} /\ res.rhs.kind = "timedelta"
    \/ res.op \in {"+", "+="} /\ res.lhs.kind = "timedelta" /\ res.rhs.kind \in {"date", "datetime"}
    \/ res.op = "-" /\ res.lhs.kind \in {"date", "datetime"} /\ res.rhs.kind = "timedelta"

YearInRange(v) ==
    /\ v.kind = "date" => civil_from_days(v.ordinal)[1] \in 1..9999
    /\ v.kind = "datetime" => civil_from_days(v.datetime.naive.d)[1] \in 1..9999

\* C10: every date and datetime value has its (local) civil year in 1..9999;
\* adding or subtracting a timedelta either succeeds or raises
\* OverflowError "date value out of range"; a failed construction raises
\* ValueError.
C10_DateRange ==
    /\ YearInRange(x)
    /\ YearInRange(y)
    /\ (DateOp /\ ~res.ok) => (res.exc = "OverflowError" /\ res.msg = "date value out of range")
    /\ (res.op \in {"date", "datetime"} /\ ~res.ok) => res.exc = "ValueError"

\* C10, as the code has it: the year invariant holds, + and - report an
\* out-of-range result as OverflowError, and += reports it as TypeError.
C10_DateRangeExceptAugmented ==
    /\ YearInRange(x)
    /\ YearInRange(y)
    /\ (DateOp /\ ~res.ok) =>
          IF res.op = "+=" THEN res.exc = "TypeError"
          ELSE res.exc = "OverflowError" /\ res.msg = "date value out of range"
    /\ (res.op \in {"date", "datetime"} /\ ~res.ok) => res.exc = "ValueError"

\* An aware datetime + timedelta left the year range.
C10_Witness ==
    /\ res.op = "+" /\ res.lhs.kind = "datetime" /\ is_aware(res.lhs.datetime)
    /\ res.rhs.kind = "timedelta"
    /\ ~res.ok

DatetimeShift ==
    /\ res.op \in {"+", "-"}
    /\ res.lhs.kind = "datetime"
    /\ res.rhs.kind = "timedelta"

\* Ghost: the wall clock the shifted datetime must show, from the exact total
\* of the timedelta operand.
ShiftedLocal ==
    IF res.op = "-" THEN MicrosSub(res.lhs.datetime.naive, exact.y)
    ELSE MicrosAdd(res.lhs.datetime.naive, exact.y)
ShiftedInstant ==
    IF res.op = "-" THEN MicrosSub(Instant(res.lhs), exact.y)
    ELSE MicrosAdd(Instant(res.lhs), exact.y)
MaxOrdinal == num_days_from_ce(9999, 12, 31)
ShiftInRange == ShiftedLocal.d >= 1 /\ ShiftedLocal.d <= MaxOrdinal

\* C11: datetime + timedelta and datetime - timedelta succeed exactly when
\* the result is in range, and then the result has the awareness, the offset
\* and the display name of the datetime operand and denotes its instant
\* shifted by the timedelta.
C11_ShiftKeepsTimezone ==
    DatetimeShift =>
        /\ res.ok <=> ShiftInRange
        /\ res.ok =>
              /\ x.kind = "datetime"
              /\ x.datetime.offset_seconds = res.lhs.datetime.offset_seconds
              /\ x.datetime.timezone_name = res.lhs.datetime.timezone_name
              /\ x.datetime.naive = ShiftedLocal
              /\ Instant(x) = ShiftedInstant

\* A named aware datetime was shifted by a timedelta that is not zero.
C11_Witness ==
    /\ DatetimeShift /\ res.ok
    /\ is_aware(res.lhs.datetime)
    /\ res.lhs.datetime.timezone_name.some
    /\ x.datetime.naive # res.lhs.datetime.naive

\* A datetime and a timedelta were added, in either order, and the sum is
\* in range; the step that follows subtracts the second operand from it.
SumOfDatetimeAndTimedelta ==
    /\ nops = 1
    /\ res.op = "+"
    /\ res.ok
    /\ \/ res.lhs.kind = "datetime" /\ res.rhs.kind = "timedelta"
       \/ res.lhs.kind = "timedelta" /\ res.rhs.kind = "datetime"
SubtractsSecondOperand == nops' = 2 /\ res'.op = "-"

\* C30: datetime arithmetic is invertible: whenever x + d is representable,
\* (x + d) - d is x and (x + d) - x is d, for naive and aware x.  The sum
\* was built as first + second; subtracting the second operand gives back
\* the first.
C30_Invertible ==
    [][SumOfDatetimeAndTimedelta /\ SubtractsSecondOperand => res'.ok /\ x' = res.lhs]_vars

\* (x + d) - d was computed for an aware, named x and a d that is not zero.
C30_Witness ==
    /\ nops = 2
    /\ res.op = "-"
    /\ res.ok
    /\ res.lhs.kind = "datetime"
    /\ res.rhs.kind = "timedelta"
    /\ x.kind = "datetime"
    /\ is_aware(x.datetime)
    /\ x.datetime.timezone_name.some
    /\ x # res.lhs
    /\ binary_add(x, y) = OkValue(res.lhs)

\* (d + x) - x was computed for an aware x and gave the timedelta d.
C30_DifferenceWitness ==
    /\ nops = 2
    /\ res.op = "-"
    /\ res.ok
    /\ res.lhs.kind = "datetime"
    /\ res.rhs.kind = "datetime"
    /\ is_aware(res.rhs.datetime)
    /\ x.kind = "timedelta"
    /\ x.delta # ZeroDelta
    /\ binary_add(x, y) = OkValue(res.lhs)

TimezoneEquality ==
    /\ res.op \in {"==", "!="}
    /\ res.lhs.kind = "timezone"
    /\ res.rhs.kind = "timezone"

\* C12: two timezones compare equal exactly when their offsets are equal,
\* whatever their names, and equal offsets give equal hashes because the hash
\* is fed the offset only.
C12_TimezoneEqualityByOffset ==
    TimezoneEquality =>
        /\ res.ok
        /\ (res.bool <=> (res.op = "==")) <=>
              (res.lhs.tz.offset_seconds = res.rhs.tz.offset_seconds)
        /\ (res.lhs.tz.offset_seconds = res.rhs.tz.offset_seconds) <=>
              (TimeZone_hash(res.lhs.tz) = TimeZone_hash(res.rhs.tz))
        /\ TimeZone_hash(res.lhs.tz) = TimeZone_hash([res.lhs.tz EXCEPT !.name = NoName])

\* Two timezones with the same offset and different names compared equal.
C12_Witness ==
    /\ TimezoneEquality
    /\ res.op = "=="
    /\ res.bool
    /\ res.lhs.tz.name # res.rhs.tz.name

\* ---------------------------------------------------------------------
\* Bridge machine: run of the identity program "x" on one host input.
\* run converts the input, executes the single statement and converts the
\* result back; a failed input conversion ends the run.
\* ---------------------------------------------------------------------
HInt(num) == H("Int", num, <<>>, <<>>)
HBigInt(num) == H("BigInt", num, <<>>, <<>>)
HStr(str) == H("String", <<>>, <<str>>, <<>>)
HBool(b) == H("Bool", <<b>>, <<>>, <<>>)
HList(items) == H("List", <<>>, <<>>, items)
HRepr == H("Repr", <<>>, <<"some repr">>, <<>>)
HCycle == H("Cycle", <<1>>, <<"[...]">>, <<>>)

I64Max == <<0, 65535, 65535, 65535, 32767>>
I64Min == <<1, 0, 0, 0, 32768>>
Int64s == {<<0>>, <<0, 1>>, <<0, 2>>, <<1, 1>>, I64Max, I64Min}
WideInts == {<<0, 0, 0, 0, 32768>>, <<1, 1, 0, 0, 32768>>, <<0, 0, 0, 0, 0, 1>>}

PlainLeaves ==
    {H("None", <<>>, <<>>, <<>>), H("Ellipsis", <<>>, <<>>, <<>>), HBool(0), HBool(1),
     H("Float", <<25>>, <<>>, <<>>), HStr("a"), HStr("b"), H("Bytes", <<1, 2, 3>>, <<>>, <<>>),
     H("Path", <<>>, <<"/tmp">>, <<>>), H("Exception", <<>>, <<"ValueError", "input error">>, <<>>),
     HRepr, HCycle}
    \cup {HInt(n) : n \in Int64s}
    \cup {HBigInt(n) : n \in Int64s \cup WideInts}

BSeconds == {-1, 0, 86399, DAY_SECONDS}
BMicros == {-1, 0, 999999, MICROS_PER_SECOND}
BOffsets == {<<0, 0>>} \cup {<<1, o>> : o \in TzOffsets}
BNames == {<<>>, <<"X">>}

TemporalLeaves ==
    {H("Date", <<year, md[1], md[2]>>, <<>>, <<>>) : year \in DYears, md \in DMonthDays}
    \cup {H("DateTime", <<year, md[1], md[2], t[1], t[2], t[3], t[4], off[1], off[2]>>, name, <<>>) :
             year \in DYears, md \in {<<1, 1>>, <<2, 30>>, <<12, 31>>}, t \in DTimes,
             off \in BOffsets, name \in BNames}
    \cup {H("TimeDelta", <<days, seconds, microseconds>>, <<>>, <<>>) :
             days \in TDays, seconds \in BSeconds, microseconds \in BMicros}
    \cup {H("TimeZone", <<o>>, name, <<>>) : o \in TzOffsets, name \in BNames}

\* One child inside each kind of container.
Wrapped(l) ==
    {HList(<<l>>), H("Tuple", <<>>, <<>>, <<l>>), H("Dict", <<>>, <<>>, <<HStr("a"), l>>),
     H("NamedTuple", <<>>, <<"P", "a">>, <<l>>), H("Dataclass", <<7, 1>>, <<"D", "a">>, <<l>>),
     HList(<<HInt(<<0, 1>>), l>>)}

Collections ==
    {H(tag, <<>>, <<>>, items) :
        tag \in {"Set", "FrozenSet", "List"},
        items \in {<<>>, <<HInt(<<0, 1>>), HInt(<<0, 2>>)>>, <<HInt(<<0, 2>>), HInt(<<0, 1>>)>>,
                   <<HInt(<<0, 1>>), HInt(<<0, 1>>)>>, <<HInt(<<0, 1>>), HBool(1)>>,
                   <<HBool(1), HInt(<<0, 1>>)>>, <<HStr("b"), HStr("a")>>,
                   <<HBigInt(<<0, 0, 0, 0, 32768>>), HInt(I64Max)>>,
                   <<HList(<<>>)>>, <<HRepr>>, <<HInt(<<0, 1>>), HCycle>>}}
    \cup {H("Dict", <<>>, <<>>, items) :
        items \in {<<>>, <<HStr("a"), HInt(<<0, 1>>), HStr("b"), HInt(<<0, 2>>)>>,
                   <<HStr("b"), HInt(<<0, 2>>), HStr("a"), HInt(<<0, 1>>)>>,
                   <<HStr("a"), HInt(<<0, 1>>), HStr("a"), HInt(<<0, 2>>)>>,
                   <<HInt(<<0, 1>>), HStr("a"), HBool(1), HStr("b")>>,
                   <<HList(<<>>), HInt(<<0, 1>>)>>, <<HRepr, HInt(<<0, 1>>)>>,
                   <<HStr("a"), HList(<<HStr("b"), HRepr>>)>>}}
    \cup {H("NamedTuple", <<>>, <<"P">> \o names, <<HInt(<<0, 1>>), HInt(<<0, 2>>)>>) :
        names \in {<<"a", "b">>, <<"b", "a">>}}
    \cup {H("Dataclass", <<7, frozen>>, <<"D">> \o names, <<HInt(<<0, 1>>), HStr("a")>>) :
        frozen \in {0, 1}, names \in {<<"a", "b">>, <<"b", "a">>}}

Leaves == PlainLeaves \cup TemporalLeaves
Depth1 == UNION {Wrapped(l) : l \in Leaves} \cup Collections
Depth2 == UNION {Wrapped(c) : c \in Collections \cup {HList(<<HRepr>>), HList(<<HCycle>>)}}
Inputs == Leaves \cup Depth1 \cup Depth2

InitB ==
    /\ x = NoValue
    /\ y = NoValue
    /\ exact = [x |-> Micros(0, 0, 0), y |-> Micros(0, 0, 0)]
    /\ res = NoRes
    /\ nops = 0
    /\ BridgeIdle
    /\ FrameIdle
    /\ PureIdle

\* The host calls run with input x = h.
Run ==
    /\ phase = "idle"
    /\ \E h \in Inputs : input' = h
    /\ phase' = "convert"
    /\ UNCHANGED <<namespace, executed, output, failure>>
    /\ UNCHANGED tvars
    /\ UNCHANGED fvars
    /\ UNCHANGED pvars

\* run converts the inputs into the namespace before executing anything.
ConvertInput ==
    /\ phase = "convert"
    /\ LET r == to_value(input)
       IN /\ phase' = IF r.ok THEN "execute" ELSE "failed"
          /\ namespace' = r.v
          /\ failure' = IF r.ok THEN NoError ELSE SomeError(r.exc, r.msg, r.n)
    /\ UNCHANGED <<input, executed, output>>
    /\ UNCHANGED tvars
    /\ UNCHANGED fvars
    /\ UNCHANGED pvars

\* The statement `x`: an expression statement whose value is the result.
ExecuteStatement ==
    /\ phase = "execute"
    /\ executed' = executed + 1
    /\ phase' = "output"
    /\ UNCHANGED <<input, namespace, output, failure>>
    /\ UNCHANGED tvars
    /\ UNCHANGED fvars
    /\ UNCHANGED pvars

\* run converts the result to a host value and returns it.
ConvertOutput ==
    /\ phase = "output"
    /\ output' = from_value(namespace)
    /\ phase' = "returned"
    /\ UNCHANGED <<input, namespace, executed, failure>>
    /\ UNCHANGED tvars
    /\ UNCHANGED fvars
    /\ UNCHANGED pvars

NextB ==
    \/ Run
    \/ ConvertInput
    \/ ExecuteStatement
    \/ ConvertOutput

SpecBridge == InitB /\ [][NextB]_vars

\* ---------------------------------------------------------------------
\* Properties of the bridge machine
\* ---------------------------------------------------------------------
RECURSIVE ContainsOutputOnly(_)
ContainsOutputOnly(h) ==
    h.tag \in {"Repr", "Cycle"} \/ \E i \in 1..Len(h.items) : ContainsOutputOnly(h.items[i])

ValidDate(year, month, day) ==
    year \in 1..9999 /\ month \in 1..12 /\ day \in 1..days_in_month(year, month)
ValidOffset(o) == o > -DAY_SECONDS /\ o < DAY_SECONDS
TemporalTags == {"Date", "DateTime", "TimeDelta", "TimeZone"}
\* The component ranges of the four temporal host variants.
ValidTemporal(h) ==
    CASE h.tag = "Date" -> ValidDate(h.num[1], h.num[2], h.num[3])
      [] h.tag = "DateTime" ->
            /\ ValidDate(h.num[1], h.num[2], h.num[3])
            /\ h.num[4] \in 0..23 /\ h.num[5] \in 0..59 /\ h.num[6] \in 0..59
            /\ h.num[7] \in 0..999999
            /\ (h.num[8] = 1 => ValidOffset(h.num[9]))
      [] h.tag = "TimeDelta" -> Canonical(h.num)
      [] h.tag = "TimeZone" -> ValidOffset(h.num[1])
      [] OTHER -> TRUE

RECURSIVE ContainsInvalidTemporal(_)
ContainsInvalidTemporal(h) ==
    ~ValidTemporal(h) \/ \E i \in 1..Len(h.items) : ContainsInvalidTemporal(h.items[i])

Finished == phase \in {"returned", "failed"}

HostInteger(h) == IF h.tag = "Bool" THEN (IF h.num[1] = 1 THEN <<0, 1>> ELSE <<0>>) ELSE h.num
\* Python equality of two scalar host keys.
HostKeyEq(a, b) ==
    IF a.tag \in {"Bool", "Int", "BigInt"} /\ b.tag \in {"Bool", "Int", "BigInt"}
    THEN HostInteger(a) = HostInteger(b)
    ELSE a = b
ScalarKeys(keys) ==
    /\ \A i \in 1..Len(keys) : keys[i].tag \in {"Bool", "Int", "BigInt", "String"}
    /\ \A i, j \in 1..Len(keys) : i # j => ~HostKeyEq(keys[i], keys[j])

\* A host value in the form the output conversion produces: integers that
\* fit i64 are Int, temporal components are in range, a timezone name comes
\* with an offset, and set elements and dict keys are distinct scalars.
RECURSIVE CanonicalInput(_)
CanonicalInput(h) ==
    /\ h.tag \notin {"Repr", "Cycle"}
    /\ h.tag = "BigInt" => ~fits_i64(h.num)
    /\ ValidTemporal(h)
    /\ h.tag = "DateTime" => (h.str # <<>> => h.num[8] = 1)
    /\ h.tag \in {"Set", "FrozenSet"} => ScalarKeys(h.items)
    /\ h.tag = "Dict" => ScalarKeys([i \in 1..(Len(h.items) \div 2) |-> h.items[2 * i - 1]])
    /\ \A i \in 1..Len(h.items) : CanonicalInput(h.items[i])

C6_OutputOnlyRejected ==
    (ContainsOutputOnly(input) /\ phase \notin {"idle", "convert"}) =>
        (phase = "failed" /\ failure.some /\ executed = 0)

\* A Repr two containers deep was rejected.
C6_Witness ==
    /\ phase = "failed"
    /\ input.tag = "List" /\ Len(input.items) = 1
    /\ input.items[1].tag = "List" /\ input.items[1].items = <<HRepr>>
    /\ executed = 0

MaxSuspend == 2
MaxLimit == 3
\* The time limits of a run: none, or exceeded after 0..MaxLimit units.
Limits == {None} \cup {Some(n) : n \in 0..MaxLimit}
MaxGc == 3
\* The trackers of a run: no limits, a time limit, or a collection at the
\* statement boundary reached after 0..MaxGc units.
Trackers ==
    {LimitedTracker(limit) : limit \in Limits} \cup {GcTracker(Some(n)) : n \in 0..MaxGc}
PlainTracker == ~mach.rt.limit.some /\ ~mach.rt.gc_at.some
Replies == {0, 1}

VarX == Name(1, "local")
VarT == Name(2, "local")
VarI == Name(3, "local")
Ext == ExtCall(1)
PrintStmt(e) == ExprStmt(print_call(e))

SimpleStatements ==
    { PrintStmt(Const(1)), PrintStmt(VarX), PrintStmt(VarT), PrintStmt(Ext), ExprStmt(Ext),
      Assign(VarX, Const(5)), Assign(VarX, Ext), Assign(VarX, FString), Assign(VarX, VarT),
      Assign(VarT, ListLit(<<Const(0)>>)), Assign(VarT, ListLit(<<ListLit(<<>>)>>)),
      Assign(VarX, Add(VarX, Const(10))),
      SubscriptAssign(VarT, Const(0), Ext), SubscriptAssign(VarT, Const(0), ListLit(<<>>)),
      SubscriptAssign(VarX, Const(0), ListLit(<<>>)), SubscriptAssign(VarT, FString, Ext),
      Raise(ExcInstance("ValueError", 1)), Raise(BuiltinName("ValueError")), Raise(BuiltinName("list")),
      Raise(BuiltinName("int")), Raise(BuiltinName("len")), Raise(ListLit(<<>>)), Raise(Ext),
      Raise(NoExpr), Raise(Const(1)), Raise(VarX), Raise(VarT),
      AssertStmt(VarX, NoExpr), AssertStmt(Const(0), FString), AssertStmt(Const(1), FString),
      AssertStmt(Ext, Const(1)), AssertStmt(Const(0), Ext),
      CallStmt(1, <<ListLit(<<>>)>>), CallStmt(1, <<VarT>>), CallStmt(1, <<>>),
      CallStmt(1, <<ListLit(<<>>), Const(1)>>),
      CallStmt(2, <<>>), CallStmt(2, <<Const(1)>>), CallStmt(2, <<Const(1), VarX>>),
      CallStmt(3, <<>>), CallStmt(4, <<Const(1)>>), CallStmt(4, <<>>),
      CallStmt(5, <<VarT>>), CallStmt(5, <<ListLit(<<>>)>>),
      CallStmt(7, <<VarT>>), CallStmt(7, <<ListLit(<<Const(0)>>)>>) }

CompoundStatements ==
    { If(Ext, <<PrintStmt(Const(1))>>, <<PrintStmt(Const(2))>>),
      If(Ext, <<PrintStmt(Ext)>>, <<PrintStmt(Const(2)), PrintStmt(Ext)>>),
      If(VarX, <<Assign(VarX, Ext), PrintStmt(VarX)>>, <<PrintStmt(Const(2))>>),
      If(Const(1), <<PrintStmt(Const(1)), PrintStmt(Ext), PrintStmt(Const(2))>>, <<>>),
      If(Const(0), <<>>, <<Assign(VarT, ListLit(<<Const(0)>>)), Raise(Ext)>>),
      If(VarX, <<Assign(VarX, Const(0)), PrintStmt(Ext), PrintStmt(Const(1))>>,
               <<Assign(VarX, Const(5)), PrintStmt(Ext), PrintStmt(Const(2))>>),
      For(VarI, ListLit(<<Const(0), Const(1)>>), <<PrintStmt(VarI)>>, <<PrintStmt(Const(2))>>),
      For(VarI, ListLit(<<Const(0)>>), <<Assign(VarX, Ext), PrintStmt(VarI)>>, <<>>),
      For(VarI, ListLit(<<Const(0)>>),
          <<Assign(VarI, Add(VarI, Const(10))), Assign(VarX, Ext), PrintStmt(VarI)>>, <<>>),
      For(VarI, ListLit(<<Const(0), Const(1)>>), <<If(VarI, <<PrintStmt(Ext)>>, <<>>)>>, <<>>),
      For(VarI, ListLit(<<Const(0), Const(1)>>), <<PrintStmt(Ext)>>, <<>>),
      For(VarI, ListLit(<<Const(0), Const(1)>>), <<PrintStmt(Ext), Raise(VarI)>>, <<>>),
      For(VarI, VarT, <<SubscriptAssign(VarT, Const(0), Const(5)), ExprStmt(Ext), PrintStmt(VarI)>>, <<>>),
      For(VarI, VarX, <<PrintStmt(VarI)>>, <<>>),
      For(VarI, Ext, <<>>, <<>>),
      For(VarI, ListLit(<<Const(0), Const(1)>>), <<>>, <<>>),
      For(VarI, ListLit(<<Const(0), Const(1)>>), <<PrintStmt(VarI), Return(VarI)>>, <<PrintStmt(Const(2))>>),
      For(VarI, ListLit(<<ListLit(<<>>)>>), <<Raise(ExcInstance("ValueError", 0))>>, <<>>) }

Statements == SimpleStatements \cup CompoundStatements
Returns == {Return(VarX), Return(VarT), Return(Const(3))}
Setup ==
    {Assign(VarX, Const(5)), Assign(VarT, ListLit(<<Const(0)>>)), Assign(VarX, Const(0)),
     Assign(VarX, ExcInstance("ValueError", 1))}
Closing == Returns \cup {PrintStmt(VarX), PrintStmt(VarT)}

Programs ==
    {<<a>> : a \in Statements}
    \cup {<<a, b>> : a \in Statements, b \in Statements \cup Returns}
    \cup {<<p, a, q>> : p \in Setup, a \in Statements, q \in Closing}

\* Augmented assignments: the target is a local slot or a cell, defined by
\* the statement before or, for the slot, undefined.
CellX == Name(1, "cell")
AugInits == {Const(2), ListLit(<<Const(0)>>), FString}
AugValues == {Const(0), Const(1), ListLit(<<>>), FString}
AugPrograms ==
    {<<Assign(t, i), OpAssign(t, op, v)>> :
        t \in {VarX, CellX}, i \in AugInits, op \in Operators, v \in AugValues}
    \cup {<<OpAssign(VarX, op, v)>> : op \in Operators, v \in AugValues}
\* The tree walkers: RunFrame of run_frame.rs and Frame of run.rs, which
\* has no cells.
Walkers == {"run_frame", "run"}
UsesCell(p) == \E i \in 1..Len(p) : p[i].target.s = "cell"
\* The frame's namespace at entry: a variable captured by a nested function
\* is an owned cell, allocated empty and stored in its slot.
StartMachine(p, walker) ==
    IF UsesCell(p)
    THEN [NewMachine(FALSE, 0) EXCEPT !.heap = allocate(@, "cell", <<VUndefined>>),
                                     !.nss[GLOBAL_NS_IDX][CellX.n] = VRef(1),
                                     !.walker = walker]
    ELSE [NewMachine(FALSE, 0) EXCEPT !.walker = walker]

\* Namespaces::drop_global_with_heap.
drop_global_with_heap(m) ==
    [drop_all_with_heap(m, m.nss[GLOBAL_NS_IDX])
        EXCEPT !.nss[GLOBAL_NS_IDX] = [i \in 1..Len(@) |-> VUndefined]]

\* The end of run or resume: a suspension keeps the machine; completion
\* and failure hand the result to the host and tear the namespaces down.
Finish(r) ==
    IF r.kind = "ext"
    THEN [m |-> r.m, phase |-> "suspended",
          outcome |-> [kind |-> "suspended", v |-> NoShown, exc |-> "", msg |-> "", out |-> r.m.out, site |-> r.v.n]]
    ELSE IF r.kind = "err"
    THEN [m |-> drop_global_with_heap(clear_ext_return_values(r.m)), phase |-> "failed",
          outcome |-> [kind |-> "failed", v |-> NoShown, exc |-> r.exc, msg |-> r.msg, out |-> r.m.out, site |-> 0]]
    ELSE [m |-> drop_global_with_heap(clear_ext_return_values(drop_with_heap(r.m, r.v))),
          phase |-> "done",
          outcome |-> [kind |-> "done", v |-> Show(r.m, r.v), exc |-> "", msg |-> "", out |-> r.m.out, site |-> 0]]

\* Uninterrupted execution: the external call returns the reply at once.
Uninterrupted(p, reply) == Finish(execute(NewMachine(TRUE, reply), GLOBAL_NS_IDX, p)).outcome

\* The reply stashed as the return value of the pending call.
Stashed(m, site, reply) == [m EXCEPT !.stash = Append(@, [site |-> site, v |-> VInt(reply)])]

InLoop(m) == \E i \in 1..Len(m.trk.stack) : m.trk.stack[i].clause.kind = "for"

InitF ==
    /\ x = NoValue
    /\ y = NoValue
    /\ exact = [x |-> Micros(0, 0, 0), y |-> Micros(0, 0, 0)]
    /\ res = NoRes
    /\ nops = 0
    /\ BridgeIdle
    /\ FrameIdle
    /\ PureIdle

\* The host runs program p from its first statement.
FrameRun ==
    /\ fphase = "idle"
    /\ \E p \in Programs \cup AugPrograms, tracker \in Trackers, walker \in Walkers :
        /\ p \in AugPrograms => tracker = NoLimitTracker
        /\ walker = "run" => p \in AugPrograms /\ ~UsesCell(p)
        /\ \E f \in {Finish(execute([StartMachine(p, walker) EXCEPT !.rt = tracker], GLOBAL_NS_IDX, p))} :
           /\ program' = p
           /\ mach' = f.m
           /\ fphase' = f.phase
           /\ outcome' = f.outcome
           /\ nsusp' = IF f.phase = "suspended" THEN 1 ELSE 0
           /\ inloop' = (f.phase = "suspended" /\ InLoop(f.m))
    /\ reference' = NoOutcome
    /\ UNCHANGED tvars
    /\ UNCHANGED bvars
    /\ UNCHANGED pvars

\* The host resumes the suspended program with the external call's return
\* value, which is stashed for the call site.
FrameResume ==
    /\ fphase = "suspended"
    /\ nsusp <= MaxSuspend
    /\ \E reply \in Replies :
       \E f \in {Finish(execute(Stashed(mach, outcome.site, reply), GLOBAL_NS_IDX, program))} :
        /\ mach' = f.m
        /\ fphase' = f.phase
        /\ outcome' = f.outcome
        /\ nsusp' = IF f.phase = "suspended" THEN nsusp + 1 ELSE nsusp
        /\ inloop' = (inloop \/ (f.phase = "suspended" /\ InLoop(f.m)))
        /\ reference' = Uninterrupted(program, reply)
    /\ UNCHANGED program
    /\ UNCHANGED tvars
    /\ UNCHANGED bvars
    /\ UNCHANGED pvars

NextF == FrameRun \/ FrameResume

SpecFrame == InitF /\ [][NextF]_vars

Completed == fphase \in {"done", "failed"}
Balanced == \A id \in 1..Len(mach.heap) : mach.heap[id].rc = 0
Allocated == Len(mach.heap) > 0

\* C2: after run returns, with a value or with an uncaught exception,
\* every heap record allocated during the run has been freed.
C2_RefcountBalance == Completed => Balanced

\* C2, what the frame does guarantee: a run that returns a value without
\* having been suspended and without leaving a for loop by a return
\* statement has freed every heap record it allocated.
C2_BalanceOnPlainSuccess ==
    (fphase = "done" /\ nsusp = 0 /\ mach.clauses.for_returns = 0) => Balanced

\* A run that allocated heap records and returned a value.
C2_Witness == fphase = "done" /\ nsusp = 0 /\ Allocated /\ Balanced

\* C3: for a program that suspends exactly once, the prints and the result
\* of run; reply; resume are those of the uninterrupted execution in which
\* the external call returns the reply.
C3_ResumeEquivalent == (Completed /\ nsusp = 1 /\ PlainTracker) => outcome = reference

\* C3, what the frame does guarantee: the equivalence holds when the single
\* suspension is not inside the body of a for loop.
C3_ResumeEquivalentOutsideLoops ==
    (Completed /\ nsusp = 1 /\ ~inloop /\ PlainTracker) => outcome = reference

\* A program that printed, was suspended once outside any loop and resumed.
C3_Witness ==
    /\ Completed /\ nsusp = 1 /\ ~inloop /\ PlainTracker
    /\ outcome = reference
    /\ outcome.out # <<>>

\* The raise statement of a program that is a single statement, a pair, or
\* a setup assignment followed by the statement and a closing one.
RaiseStatement == IF Len(program) = 3 THEN program[2] ELSE program[1]
MachineBeforeRaise ==
    IF Len(program) = 3
    THEN execute(NewMachine(FALSE, 0), GLOBAL_NS_IDX, <<program[1]>>).m
    ELSE NewMachine(FALSE, 0)
RaisedValue == execute_expr(MachineBeforeRaise, GLOBAL_NS_IDX, RaiseStatement.e1)
\* The program ran without suspension up to a raise whose expression
\* evaluated to a value.
RaiseCase ==
    /\ Completed /\ nsusp = 0 /\ PlainTracker
    /\ RaiseStatement.kind = "Raise"
    /\ RaiseStatement.e1.op # "absent"
    /\ RaisedValue.kind = "value"
ExceptionInstance(v) == v.k = "exc"
ExceptionType(v) == v.k = "builtin" /\ v.s \in ExcTypes
DeriveMsg == "exceptions must derive from BaseException"
RaisedTypeError ==
    /\ outcome.kind = "failed"
    /\ outcome.exc = "TypeError"
    /\ outcome.msg = DeriveMsg
    /\ outcome.out = <<>>
    /\ Balanced
RaisedException ==
    /\ outcome.kind = "failed"
    /\ outcome.exc = RaisedValue.v.s
    /\ outcome.msg = (IF ExceptionInstance(RaisedValue.v) THEN exc_arg(RaisedValue.v) ELSE "")

\* C14: raising a value that is neither an exception instance nor an
\* exception type fails with TypeError "exceptions must derive from
\* BaseException" and has no other effect; an exception instance is raised
\* with its type and argument, an exception type as an instance without
\* argument.
C14_RaiseRule ==
    RaiseCase =>
        IF ExceptionInstance(RaisedValue.v) \/ ExceptionType(RaisedValue.v)
        THEN RaisedException
        ELSE RaisedTypeError

\* C14, what raise does guarantee: the rule holds for every value that is
\* not a builtin callable other than an exception type.
C14_RaiseRuleExceptBuiltins ==
    (RaiseCase /\ (RaisedValue.v.k = "builtin" => ExceptionType(RaisedValue.v))) =>
        IF ExceptionInstance(RaisedValue.v) \/ ExceptionType(RaisedValue.v)
        THEN RaisedException
        ELSE RaisedTypeError

\* A list held by a variable was raised and released again.
C14_Witness ==
    /\ RaiseCase
    /\ RaisedValue.v.k = "ref"
    /\ Len(program) = 3
    /\ RaisedTypeError

\* An exception instance bound to a variable was raised with its argument.
C14_InstanceWitness ==
    /\ RaiseCase
    /\ Len(program) = 3
    /\ ExceptionInstance(RaisedValue.v)
    /\ outcome.msg = "input error"

TimedOut == outcome.kind = "failed" /\ outcome.exc = "UncatchableExc"

\* C15: the time check runs before every statement and on every iteration
\* step of a for loop, also of a loop whose body executes no statement: once
\* the limit is exceeded no statement begins, at most the iteration step in
\* progress goes on, and the run ends with the uncatchable exception.
C15_TimeCheckEveryStep ==
    /\ mach.rt.late_nodes = 0
    /\ mach.rt.late <= 1
    /\ outcome.exc = "UncatchableExc" => (fphase = "failed" /\ ~check_time(mach.rt))

\* C15, what the frame does guarantee: no statement begins once the limit is
\* exceeded, and the failed check ends the run with the uncatchable exception.
C15_TimeCheckEveryStatement ==
    /\ mach.rt.late_nodes = 0
    /\ outcome.exc = "UncatchableExc" => (fphase = "failed" /\ ~check_time(mach.rt))

\* A run that printed, then found the limit exceeded at a statement boundary.
C15_Witness ==
    /\ TimedOut
    /\ fphase = "failed"
    /\ outcome.out # <<>>

\* A loop without statements went through iteration steps after the limit.
C15_LateIterations ==
    /\ fphase = "done"
    /\ mach.rt.late > 1

\* C16: a collection at a statement boundary never frees a record that the
\* execution state still references: not one reachable from a namespace
\* slot, and not one referenced only by the iterator of a for loop in
\* progress or by a value an enclosing statement holds.
C16_GcKeepsLiveRecords ==
    /\ mach.rt.lost = {}
    /\ mark(mach.heap, iter_heap_ids(mach)) \subseteq Occupied(mach.heap)

\* C16, what the collection does guarantee: every record reachable from a
\* namespace slot is still there after it.
C16_GcKeepsNamespaceRecords ==
    mark(mach.heap, iter_heap_ids(mach)) \subseteq Occupied(mach.heap)

\* A suspended program whose namespace references a list after a collection.
C16_Witness ==
    /\ fphase = "suspended"
    /\ mach.rt.collections > 0
    /\ iter_heap_ids(mach) # {}

\* The list a for loop iterates was freed by a collection inside its body.
C16_IteratorLost == mach.rt.lost # {}

CallStatement == IF Len(program) = 3 THEN program[2] ELSE program[1]
MachineBeforeCall ==
    IF Len(program) = 3
    THEN execute(NewMachine(FALSE, 0), GLOBAL_NS_IDX, <<program[1]>>).m
    ELSE NewMachine(FALSE, 0)
CalledFunction == Functions[CallStatement.e1.n]
CallArguments == evaluate_args(MachineBeforeCall, GLOBAL_NS_IDX, CallStatement.e1.args, <<>>)
GivenCount == Len(CallArguments.vs)
ParamCount == Len(CalledFunction.params)
\* The program ran without suspension up to a call whose arguments
\* evaluated and whose count differs from the number of parameters.
ArityCase ==
    /\ Completed /\ nsusp = 0 /\ PlainTracker
    /\ CallStatement.kind = "Call"
    /\ CallArguments.kind = "value"
    /\ GivenCount # ParamCount
Plural(n) == IF n = 1 THEN "" ELSE "s"
Quoted(s) == "'" \o s \o "'"
\* The names as CPython lists them: 'a' / 'a' and 'b' / 'a', 'b', and 'c'.
CPythonNames(names) ==
    CASE Len(names) = 1 -> Quoted(names[1])
      [] Len(names) = 2 -> Quoted(names[1]) \o " and " \o Quoted(names[2])
      [] Len(names) = 3 ->
            Quoted(names[1]) \o ", " \o Quoted(names[2]) \o ", and " \o Quoted(names[3])
\* The names with a comma before "and" for two names as well.
CommaNames(names) ==
    IF Len(names) = 2 THEN Quoted(names[1]) \o ", and " \o Quoted(names[2])
    ELSE CPythonNames(names)
MissingNames == SubSeq(CalledFunction.params, GivenCount + 1, ParamCount)
MissingHead ==
    CalledFunction.name \o "() missing " \o ToString(ParamCount - GivenCount)
    \o " required positional argument" \o Plural(ParamCount - GivenCount) \o ": "
TooManyMessage ==
    CalledFunction.name \o "() takes " \o ToString(ParamCount) \o " positional argument"
    \o Plural(ParamCount) \o " but " \o ToString(GivenCount)
    \o (IF GivenCount = 1 THEN " was given" ELSE " were given")
\* TypeError with the message, no namespace pushed, no statement begun
\* after the call statement itself, nothing printed.
ArityError(msg) ==
    /\ outcome.kind = "failed"
    /\ outcome.exc = "TypeError"
    /\ outcome.msg = msg
    /\ mach.pushed = MachineBeforeCall.pushed
    /\ mach.rt.clock = MachineBeforeCall.rt.clock + 1
    /\ outcome.out = MachineBeforeCall.out

\* C20: a call with a number of positional arguments different from the
\* number of parameters fails with TypeError and the message CPython gives,
\* pushes no namespace and executes no statement of the body.
C20_ArityError ==
    ArityCase =>
        ArityError(IF GivenCount < ParamCount THEN MissingHead \o CPythonNames(MissingNames)
                   ELSE TooManyMessage)

\* C20, what the call does guarantee: the same, with the two names of a
\* call missing exactly two arguments joined by ", and ".
C20_ArityErrorCommaBeforeAnd ==
    ArityCase =>
        ArityError(IF GivenCount < ParamCount THEN MissingHead \o CommaNames(MissingNames)
                   ELSE TooManyMessage)

\* h() was called without its three arguments after a statement had run.
C20_Witness ==
    /\ ArityCase
    /\ Len(program) = 3
    /\ outcome.msg = "h() missing 3 required positional arguments: 'a', 'b', and 'c'"
    /\ mach.pushed = 0

\* k(1) was called although k takes no argument.
C20_TooManyWitness ==
    /\ ArityCase
    /\ outcome.msg = "k() takes 0 positional arguments but 1 was given"

\* The program ran to its end without suspension and called functions.
CallsReturned == Completed /\ nsusp = 0 /\ PlainTracker /\ mach.pushed > 0
\* Every call of the program had as many arguments as parameters.
RECURSIVE ArityMatches(_)
ArityMatches(nodes) ==
    \A i \in 1..Len(nodes) :
        nodes[i].kind = "Call" =>
            /\ Len(nodes[i].e1.args) = Len(Functions[nodes[i].e1.n].params)
            /\ ArityMatches(Functions[nodes[i].e1.n].body)

\* C21: after the calls of a program, nested or not, returned or raised,
\* the namespace stack is as deep as before each call, the global namespace
\* was never popped, and the pops released every slot pushed exactly once:
\* as many slots released as pushed, and no record left with a reference
\* when the arguments were all bound.
C21_NamespaceStack ==
    CallsReturned =>
        /\ Len(mach.nss) = 1
        /\ mach.frames.unwound
        /\ ~mach.frames.global_popped
        /\ mach.frames.popped = mach.pushed
        /\ mach.frames.released = mach.frames.slots
        /\ (ArityMatches(program) /\ Len(program) = 1) => Balanced

\* caller(t) raised out of its nested call to thrower and both namespaces
\* were popped.
C21_Witness ==
    /\ CallsReturned
    /\ fphase = "failed"
    /\ outcome.exc = "ValueError"
    /\ mach.pushed = 2
    /\ mach.frames.popped = 2
    /\ mach.frames.released = 3
    /\ Allocated

\* The program was suspended once, inside the branch of an if statement,
\* was resumed and ran to its end.
IfResumed == Completed /\ nsusp = 1 /\ PlainTracker /\ mach.clauses.if_exits > 0
\* Tests evaluated by the uninterrupted execution that gives the reference.
ReferenceTests ==
    {execute(NewMachine(TRUE, reply), GLOBAL_NS_IDX, program).m.clauses.tests :
        reply \in {r \in Replies : Uninterrupted(program, r) = reference}}

\* C22: when an if statement was suspended inside its branch and resumed,
\* its test was not evaluated again (run and resume together evaluated as
\* many tests as the uninterrupted execution) and, outside for loops,
\* execution went on in the same branch at the recorded statement: prints
\* and result are those of the uninterrupted execution.
C22_IfResume ==
    IfResumed =>
        /\ mach.clauses.if_resumed > 0
        /\ mach.clauses.tests \in ReferenceTests
        /\ ~inloop => outcome = reference

\* x = 0, then an if on x whose else branch sets x = 5 and suspends: the
\* resumed program went on in the else branch.
C22_Witness ==
    /\ IfResumed
    /\ Len(program) = 3
    /\ program[1] = Assign(VarX, Const(0))
    /\ program[2].kind = "If"
    /\ program[2].e1 = VarX
    /\ outcome.out # <<>>
    /\ outcome.out[Len(outcome.out)].n = 2

\* The program was suspended once, inside the body of a for loop, was
\* resumed and ran to its end.
ForResumed ==
    Completed /\ nsusp = 1 /\ PlainTracker /\ mach.clauses.for_exits > mach.clauses.for_returns
\* The machines at the end of the uninterrupted executions that give the
\* reference.
ReferenceClauses ==
    {execute(NewMachine(TRUE, reply), GLOBAL_NS_IDX, program).m.clauses :
        reply \in {r \in Replies : Uninterrupted(program, r) = reference}}
\* The bindings without those made on entry with a saved iterator.
RECURSIVE FirstBindings(_)
FirstBindings(bound) ==
    IF bound = <<>> THEN <<>>
    ELSE IF Head(bound).again THEN FirstBindings(Tail(bound))
    ELSE <<Head(bound).index>> \o FirstBindings(Tail(bound))
\* Every binding made on entry with a saved iterator is of the position
\* bound just before the suspension.
Reyielded(bound) ==
    \A i \in 1..Len(bound) :
        bound[i].again => (i > 1 /\ bound[i - 1].index = bound[i].index)

\* C23: when the body of a for loop suspends and the program is resumed,
\* the loop is entered with the saved iterator and the iterable is not
\* evaluated again; the first element bound is the one of the interrupted
\* iteration; apart from that binding, the elements are bound in the order
\* and number of the uninterrupted execution; and every iterator created has
\* been dropped when the program ends, also when the body raised, the loops
\* left by a return statement apart.
C23_ForResume ==
    ForResumed =>
        /\ mach.clauses.for_resumed > 0
        /\ \E c \in ReferenceClauses :
              /\ mach.clauses.iterables = c.iterables
              /\ FirstBindings(mach.clauses.bound) = FirstBindings(c.bound)
        /\ Reyielded(mach.clauses.bound)
        /\ Len(SelectSeq(mach.clauses.bound, LAMBDA b : b.again)) = 1
        /\ mach.clauses.iters = mach.clauses.iter_drops + mach.clauses.for_returns

\* A loop over two elements suspended in its second iteration and bound
\* the second element again on resume.
C23_Witness ==
    /\ ForResumed
    /\ Len(program) = 1
    /\ Len(mach.clauses.bound) = 3
    /\ mach.clauses.bound[3] = [index |-> 1, again |-> TRUE]
    /\ mach.clauses.iter_drops = 1

\* The program was suspended and resumed at least once and ran to its end.
Resumed == Completed /\ nsusp > 0 /\ PlainTracker

\* C24: no statement that follows a completed statement, and no body of an
\* if or for entered after its test or iterable was evaluated, begins with
\* a value in the stash; and each reply is consumed once, by the statement
\* resumed with it: the replies consumed are as many as the suspensions.
C24_StashCleared ==
    /\ PlainTracker => mach.returns.stale = 0
    /\ Resumed => mach.returns.consumed = nsusp

\* if ext(): print(ext()) was suspended in its test and again in its body.
C24_Witness ==
    /\ Resumed
    /\ nsusp = 2
    /\ program[1].kind = "If"
    /\ mach.clauses.tests = 1
    /\ mach.clauses.if_resumed = 1
    /\ Len(outcome.out) = 1


\* A completed run of an augmented assignment, the statement itself, the
\* machine it found and the operands it worked on.
AugRun == program \in AugPrograms /\ Completed
AugNode == program[Len(program)]
AugStart == StartMachine(program, mach.walker)
MachineBeforeAug ==
    IF Len(program) = 2 THEN execute(AugStart, GLOBAL_NS_IDX, <<program[1]>>).m ELSE AugStart
TargetValue(m) ==
    IF AugNode.target.s = "cell"
    THEN m.heap[m.nss[GLOBAL_NS_IDX][AugNode.target.n].n].items[1]
    ELSE m.nss[GLOBAL_NS_IDX][AugNode.target.n]
RhsResult == execute_expr(MachineBeforeAug, GLOBAL_NS_IDX, AugNode.e1)
TargetType == py_type(MachineBeforeAug, TargetValue(MachineBeforeAug))
RhsType == py_type(RhsResult.m, RhsResult.v)
TypeNames == {"int", "list", "str", "float"}
\* The TypeError of an unsupported combination, whatever it names.
UnsupportedMessages ==
    {operand_type_error(sym, lt, rt) :
        sym \in {OpSymbol(AugNode.op), AugSymbol(AugNode.op)}, lt \in TypeNames, rt \in TypeNames}
UnsupportedRaised == AugRun /\ outcome.exc = "TypeError" /\ outcome.msg \in UnsupportedMessages
NamesOperandsInOrder ==
    outcome.msg \in {operand_type_error(sym, TargetType, RhsType) :
                        sym \in {OpSymbol(AugNode.op), AugSymbol(AugNode.op)}}

\* C26: when an augmented assignment is unsupported for its operand types,
\* the TypeError names the operator, the type of the target and the type
\* of the evaluated right-hand value, in that order.
C26_TypeErrorNamesOperands == UnsupportedRaised => NamesOperandsInOrder

\* C26, what holds: RunFrame::op_assign of run_frame.rs names the target's
\* type and the right-hand value's type; Frame::op_assign of run.rs names
\* the operator and the target's type twice.
C26_TypeErrorByWalker ==
    UnsupportedRaised =>
        IF mach.walker = "run"
        THEN outcome.msg = operand_type_error(OpSymbol(AugNode.op), TargetType, TargetType)
        ELSE outcome.msg = augmented_assign_type_error(AugNode.op, TargetType, RhsType)

\* x = 2; x += [] in the walker of run.rs: the operand types differ and
\* the message names 'int' twice.
C26_Witness ==
    /\ UnsupportedRaised
    /\ mach.walker = "run"
    /\ TargetType = "int"
    /\ RhsType = "list"
    /\ ~NamesOperandsInOrder

\* x = 2; x *= [] in the walker of run_frame.rs: 'int' and 'list'.
C26_RunFrameWitness ==
    /\ UnsupportedRaised
    /\ mach.walker = "run_frame"
    /\ AugNode.op = "Mult"
    /\ outcome.msg = "unsupported operand type(s) for *=: 'int' and 'list'"


\* The augmented assignment before the namespaces are torn down, and what
\* it did with its operands.
AugFinal == execute(AugStart, GLOBAL_NS_IDX, program)
RunFrameAug == AugRun /\ mach.walker = "run_frame" /\ mach = Finish(AugFinal).m
HeapRhs == RhsResult.v.k = "ref"
CellTarget == AugNode.target.s = "cell"
HeapCopy == CellTarget /\ TargetValue(MachineBeforeAug).k = "ref"
TargetKept ==
    LET old == TargetValue(MachineBeforeAug) IN
    /\ TargetValue(AugFinal.m) = old
    /\ old.k = "ref" => AugFinal.m.heap[old.n].items = MachineBeforeAug.heap[old.n].items
\* The statement ended normally or with the TypeError of an unsupported
\* combination.
AugSettled == outcome.kind = "done" \/ UnsupportedRaised

\* C27: whatever the operator and the outcome, op_assign releases the
\* right-hand value exactly once and, for a cell target, the copy of the
\* cell's value exactly once, and the target keeps its old value unless
\* the operation succeeded.
C27_OperandsReleased ==
    RunFrameAug =>
        /\ HeapRhs => mach.opa.rhs = 1
        /\ HeapCopy => mach.opa.copy = 1
        /\ Balanced
        /\ outcome.kind = "failed" => TargetKept

\* C27, what holds: nothing is released twice, a failed statement leaves
\* the target as it was, and a statement that succeeds or finds the
\* combination unsupported releases the right-hand value once and, except
\* for an unsupported += on a cell, the copy once, leaving no record
\* referenced.
C27_ReleasedWhenSettled ==
    RunFrameAug =>
        /\ mach.opa.rhs <= 1
        /\ mach.opa.copy <= 1
        /\ outcome.kind = "failed" => TargetKept
        /\ AugSettled =>
            /\ HeapRhs => mach.opa.rhs = 1
            /\ ~(CellTarget /\ AugNode.op = "Add" /\ outcome.kind = "failed") =>
                    /\ HeapCopy => mach.opa.copy = 1
                    /\ Balanced

\* x += [] with x undefined: NameError, and the new list is never released.
C27_Witness ==
    /\ RunFrameAug
    /\ program = <<OpAssign(VarX, "Add", ListLit(<<>>))>>
    /\ outcome.exc = "NameError"
    /\ mach.opa.rhs = 0
    /\ ~Balanced

\* A cell holding a string, += 1: TypeError, and the copy of the cell's
\* value is never released.
C27_CellWitness ==
    /\ RunFrameAug
    /\ program = <<Assign(CellX, FString), OpAssign(CellX, "Add", Const(1))>>
    /\ UnsupportedRaised
    /\ mach.opa.copy = 0
    /\ ~Balanced

\* A cell holding a list, += [] succeeds: both released once, the list is
\* freed with the cell.
C27_SuccessWitness ==
    /\ RunFrameAug
    /\ program = <<Assign(CellX, ListLit(<<Const(0)>>)), OpAssign(CellX, "Add", ListLit(<<>>))>>
    /\ outcome.kind = "done"
    /\ mach.opa.rhs = 1
    /\ mach.opa.copy = 1
    /\ Balanced


\* Iterators created by the for loops of the run and iterators released.
IteratorsReleased == mach.clauses.iter_drops = mach.clauses.iters
LoopEntered == Completed /\ mach.clauses.iters > 0

\* C28: the iterator's reference on its iterable is released on every way
\* of leaving the loop other than a suspension that is later resumed:
\* exhaustion, an error from advancing, an exception in the body and a
\* return statement inside the body.
C28_IteratorReleased == LoopEntered => IteratorsReleased

\* C28, what holds: without a time limit and without garbage collection,
\* the iterators not released when the run is over are those of the loops
\* left by a return statement.
C28_IteratorReleasedUnlessReturn ==
    LoopEntered /\ PlainTracker =>
        mach.clauses.iters = mach.clauses.iter_drops + mach.clauses.for_returns

\* for i in [0, 1]: print(i); return i -- the run returns 0 and the list
\* is still referenced by the iterator that was never released.
C28_Witness ==
    /\ LoopEntered
    /\ PlainTracker
    /\ program = <<For(VarI, ListLit(<<Const(0), Const(1)>>), <<PrintStmt(VarI), Return(VarI)>>,
                       <<PrintStmt(Const(2))>>)>>
    /\ outcome.kind = "done"
    /\ mach.clauses.for_returns = 1
    /\ mach.clauses.iter_drops = 0
    /\ ~Balanced

\* A loop left by exhaustion, and one left by an exception in its body,
\* with the iterator released.
C28_ExhaustedWitness ==
    /\ LoopEntered
    /\ PlainTracker
    /\ outcome.kind = "done"
    /\ mach.clauses.for_exits = 0
    /\ IteratorsReleased
    /\ Balanced
C28_RaisedWitness ==
    /\ LoopEntered
    /\ PlainTracker
    /\ program = <<For(VarI, ListLit(<<ListLit(<<>>)>>), <<Raise(ExcInstance("ValueError", 0))>>, <<>>)>>
    /\ outcome.kind = "failed"
    /\ IteratorsReleased


\* A program that is one for loop with an else block, run without
\* suspension, limits or collection; the loop ran to exhaustion when the
\* run is done and no body left the frame.
ForElseRun ==
    /\ Completed
    /\ PlainTracker
    /\ nsusp = 0
    /\ Len(program) = 1
    /\ program[1].kind = "For"
    /\ program[1].or_else # <<>>
LoopExhausted == outcome.kind = "done" /\ mach.clauses.iters = 1 /\ mach.clauses.for_exits = 0
ElseOutput == Finish(execute(NewMachine(FALSE, 0), GLOBAL_NS_IDX, program[1].or_else)).outcome.out
WithoutElse == <<[program[1] EXCEPT !.or_else = <<>>]>>
EndsWith(out, tail) ==
    /\ Len(out) >= Len(tail)
    /\ SubSeq(out, Len(out) - Len(tail) + 1, Len(out)) = tail

\* C29: a for loop that runs to exhaustion with no exit and no exception
\* executes its else block exactly once after the last iteration; a loop
\* whose body leaves the frame or raises does not execute it.
C29_ElseAfterExhaustion ==
    ForElseRun =>
        IF LoopExhausted
        THEN EndsWith(outcome.out, ElseOutput)
        ELSE outcome.out = Finish(execute(NewMachine(FALSE, 0), GLOBAL_NS_IDX, WithoutElse)).outcome.out

\* C29, what holds: the else block of a for loop is never executed; the
\* run is that of the loop without it.
C29_ElseNeverRuns ==
    ForElseRun => outcome = Finish(execute(NewMachine(FALSE, 0), GLOBAL_NS_IDX, WithoutElse)).outcome

\* for i in [0, 1]: print(i) else: print(2) -- the run prints 0 and 1 and
\* is done.
C29_Witness ==
    /\ ForElseRun
    /\ LoopExhausted
    /\ program[1].or_else = <<PrintStmt(Const(2))>>
    /\ Len(ElseOutput) = 1
    /\ Len(outcome.out) = 2
    /\ outcome.out[2].n = 1

\* The loop left by a return statement in its body: the else block is not
\* executed.
C29_ReturnWitness ==
    /\ ForElseRun
    /\ mach.clauses.for_returns = 1
    /\ Len(outcome.out) = 1

\* ---------------------------------------------------------------------
\* Type-check machine: is_instance_of applied to a pair of types
\* ---------------------------------------------------------------------
InitY ==
    /\ x = NoValue
    /\ y = NoValue
    /\ exact = [x |-> Micros(0, 0, 0), y |-> Micros(0, 0, 0)]
    /\ res = NoRes
    /\ nops = 0
    /\ BridgeIdle
    /\ FrameIdle
    /\ self_type \in Types
    /\ other_type \in Types
    /\ instance = "none"
    /\ InternIdle
    /\ OsIdle
    /\ VmIdle

IsInstance ==
    /\ instance = "none"
    /\ instance' = IF is_instance_of(self_type, other_type) THEN "True" ELSE "False"
    /\ UNCHANGED <<self_type, other_type>>
    /\ UNCHANGED ivars
    /\ UNCHANGED ovars
    /\ UNCHANGED mvars
    /\ UNCHANGED tvars
    /\ UNCHANGED bvars
    /\ UNCHANGED fvars

NextY == IsInstance

SpecType == InitY /\ [][NextY]_vars

\* C13: the instance of every exception type of the taxonomy is an instance
\* of BaseException under the instance-of relation.
C13_ExceptionIsBaseException ==
    (instance # "none" /\ self_type.tag = "Exception" /\ other_type = Exception("BaseException"))
        => instance = "True"

\* What the relation does instead: it holds between equal types and between
\* bool and int, and nowhere else.
C13_InstanceOfIsIdentity ==
    instance # "none" =>
        (instance = "True" <=>
            (self_type = other_type \/ (self_type.tag = "Bool" /\ other_type.tag = "Int")))

\* An exception type other than BaseException was tested against BaseException.
C13_Witness ==
    /\ instance = "False"
    /\ self_type = Exception("ValueError")
    /\ other_type = Exception("BaseException")

\* ---------------------------------------------------------------------
\* Interner machine: a new interner and up to MaxInterns calls on it
\* ---------------------------------------------------------------------
MaxInterns == 4
InternInputs == {"a", "", "append", "<module>", "hello", "x1"}
BytesInputs == {<<>>, <<97>>}

InitI ==
    /\ x = NoValue
    /\ y = NoValue
    /\ exact = [x |-> Micros(0, 0, 0), y |-> Micros(0, 0, 0)]
    /\ res = NoRes
    /\ nops = 0
    /\ BridgeIdle
    /\ FrameIdle
    /\ TypeIdle
    /\ interner = InternerBuilder_new
    /\ issued = {}
    /\ issued_bytes = {}
    /\ last_intern = NoIntern
    /\ OsIdle
    /\ VmIdle

Intern ==
    /\ last_intern.calls < MaxInterns
    /\ \E s \in InternInputs :
       \E r \in {intern(interner, s)} :
        /\ interner' = r.interner
        /\ issued' = issued \cup {[id |-> r.id, s |-> s]}
        /\ last_intern' =
              [op |-> "intern", s |-> s, id |-> r.id,
               present |-> contains_key(interner.string_map, s),
               existing |-> IF contains_key(interner.string_map, s)
                            THEN map_get(interner.string_map, s) ELSE 0,
               len |-> Len(interner.strings), calls |-> last_intern.calls + 1]
    /\ UNCHANGED issued_bytes
    /\ UNCHANGED yvars
    /\ UNCHANGED ovars
    /\ UNCHANGED mvars
    /\ UNCHANGED tvars
    /\ UNCHANGED bvars
    /\ UNCHANGED fvars

InternBytes ==
    /\ last_intern.calls < MaxInterns
    /\ \E b \in BytesInputs :
       \E r \in {intern_bytes(interner, b)} :
        /\ interner' = r.interner
        /\ issued_bytes' = issued_bytes \cup {[id |-> r.id, b |-> b]}
        /\ last_intern' =
              [op |-> "intern_bytes", s |-> "", id |-> r.id, present |-> FALSE, existing |-> 0,
               len |-> Len(interner.bytes), calls |-> last_intern.calls + 1]
    /\ UNCHANGED issued
    /\ UNCHANGED yvars
    /\ UNCHANGED ovars
    /\ UNCHANGED mvars
    /\ UNCHANGED tvars
    /\ UNCHANGED bvars
    /\ UNCHANGED fvars

NextI == Intern \/ InternBytes

SpecIntern == InitI /\ [][NextI]_vars

Distinct(seq) == \A i, j \in 1..Len(seq) : i # j => seq[i] # seq[j]

\* C17: interning a string that is present returns its existing id and does
\* not grow the table; distinct strings have distinct ids; every id returned
\* resolves to the string it was issued for; intern_bytes issues a new id at
\* every call, also for equal byte strings.
C17_InternTable ==
    /\ (last_intern.op = "intern" /\ last_intern.present) =>
            /\ last_intern.id = last_intern.existing
            /\ Len(interner.strings) = last_intern.len
    /\ Distinct(interner.strings)
    /\ \A e, f \in issued : e.s # f.s => e.id # f.id
    /\ \A e \in issued : get_str(interner, e.id) = e.s
    /\ \A e \in issued_bytes : get_bytes(interner, e.id) = e.b
    /\ Cardinality({e.id : e \in issued_bytes}) = Len(interner.bytes)
    /\ last_intern.op = "intern_bytes" => last_intern.id = last_intern.len

\* A string was interned twice and equal bytes were interned twice.
C17_Witness ==
    /\ last_intern.op = "intern" /\ last_intern.present /\ last_intern.s = "hello"
    /\ Len(interner.bytes) = 2
    /\ interner.bytes[1] = interner.bytes[2]

ReservedPrefix(self) ==
    /\ get_str(self, 0) = "<module>"
    /\ \A i \in 1..Len(attr) : get_str(self, attr[i].id) = attr[i].name
    /\ {attr[i].id : i \in 1..Len(attr)} = 1..MAX_ATTR_ID
    /\ get_str(self, MAX_ATTR_ID + 1) = ""
    /\ EMPTY_STRING = MAX_ATTR_ID + 1
    /\ \A b \in 0..(ASCII_STRING_COUNT - 1) :
          /\ get_str(self, ascii_string_id(b)) = ASCII_STRS[b + 1]
          /\ ascii_string_id(b) = 72 + b
    /\ Len(build_base.strings) = 200

\* C18 as stated: the prefix is fixed and every string interned later
\* receives an id of 200 or more.
C18_ReservedPrefixAllLater ==
    /\ ReservedPrefix(interner)
    /\ last_intern.op = "intern" => last_intern.id >= 200

\* C18: id 0 is "<module>", ids 1..70 are the method names of the attr
\* constants, id 71 the empty string, ids 72..199 the one-byte strings in
\* byte order as ascii_string_id gives them; a string interned later that is
\* not in the prefix receives an id of 200 or more, one that is in the prefix
\* its id there, and the prefix never changes.
C18_ReservedPrefix ==
    /\ ReservedPrefix(interner)
    /\ SubSeq(interner.strings, 1, 200) = build_base.strings
    /\ last_intern.op = "intern" =>
          IF contains_key(build_base.string_map, last_intern.s)
          THEN last_intern.id < 200 /\ get_str(build_base, last_intern.id) = last_intern.s
          ELSE last_intern.id >= 200

\* Strings outside the prefix were interned, then one of the prefix.
C18_Witness ==
    /\ Len(interner.strings) > 201
    /\ last_intern.op = "intern"
    /\ last_intern.s = "a"
    /\ last_intern.id = ascii_string_id(97)

\* ---------------------------------------------------------------------
\* Host-effect machine: one call of datetime.now or date.today
\* ---------------------------------------------------------------------
\* Argument values: None, the timezones a program can construct, a date.
NowValues ==
    {NoValue, DateValue(1)}
    \cup {TimeZoneValue(TimeZone_new(o, n).v) :
            o \in {o \in TzOffsets : TimeZone_new(o, NoName).ok}, n \in TzNames}
Kw(key, string, value) == [key |-> key, string |-> string, value |-> value]
NowPositional ==
    {<<>>} \cup {<<v>> : v \in NowValues}
           \cup {<<v, w>> : v \in {NoValue, DateValue(1)}, w \in {NoValue, DateValue(1)}}
NowKeywords ==
    {<<>>, <<Kw("tzinfo", TRUE, NoValue)>>, <<Kw("", FALSE, NoValue)>>,
     <<Kw("tz", TRUE, NoValue), Kw("tz", TRUE, NoValue)>>}
    \cup {<<Kw("tz", TRUE, v)>> : v \in NowValues}

InitO ==
    /\ x = NoValue
    /\ y = NoValue
    /\ exact = [x |-> Micros(0, 0, 0), y |-> Micros(0, 0, 0)]
    /\ res = NoRes
    /\ nops = 0
    /\ BridgeIdle
    /\ FrameIdle
    /\ TypeIdle
    /\ InternIdle
    /\ OsIdle
    /\ VmIdle

DateTimeNowCall ==
    /\ method = NoCall
    /\ \E pos \in NowPositional, kwargs \in NowKeywords :
        /\ method' = [name |-> "datetime.now", pos |-> pos, kwargs |-> kwargs]
        /\ effect' = class_now(pos, kwargs)
    /\ UNCHANGED <<yvars, ivars, mvars>>
    /\ UNCHANGED tvars
    /\ UNCHANGED bvars
    /\ UNCHANGED fvars

DateTodayCall ==
    /\ method = NoCall
    /\ \E pos \in {<<>>, <<NoValue>>} :
        /\ method' = [name |-> "date.today", pos |-> pos, kwargs |-> <<>>]
        /\ effect' = class_today(pos, <<>>)
    /\ UNCHANGED <<yvars, ivars, mvars>>
    /\ UNCHANGED tvars
    /\ UNCHANGED bvars
    /\ UNCHANGED fvars

NextO == DateTimeNowCall \/ DateTodayCall

SpecOs == InitO /\ [][NextO]_vars

DateTimeNowIssued == effect.kind = "OsCall" /\ effect.function = "DateTimeNow"
\* The timezone argument of the call made: positional or tz=.
NowTimezone ==
    IF method.pos # <<>> THEN method.pos[1]
    ELSE IF method.kwargs # <<>> THEN method.kwargs[1].value
    ELSE NoValue
ModeOneOrTwo ==
    /\ effect.args[1].n \in {1, 2}
    /\ effect.args[1].n = 1 => (Len(effect.args) = 1 /\ NowTimezone.kind = "none")
    /\ effect.args[1].n = 2 =>
          /\ NowTimezone.kind = "timezone"
          /\ Len(effect.args) = (IF NowTimezone.tz.name.some THEN 3 ELSE 2)
          /\ effect.args[2] = IntValue(NowTimezone.tz.offset_seconds)
          /\ NowTimezone.tz.name.some => effect.args[3] = StrValue(NowTimezone.tz.name.v)

\* C19 as stated: every DateTimeNow call carries mode 1, alone, for a call
\* without timezone, or mode 2 followed by the offset in seconds and, when
\* the timezone has one, its name.
C19_ModeOneOrTwo ==
    DateTimeNowIssued => (effect.args[1].k = "int" /\ ModeOneOrTwo)

\* C19: the call of datetime.now carries mode 1 or 2 as stated; the call of
\* date.today carries mode 0 and nothing else.
C19_ModeByMethod ==
    DateTimeNowIssued =>
        /\ effect.args[1].k = "int"
        /\ IF method.name = "date.today"
           THEN effect.args = <<IntValue(0)>>
           ELSE ModeOneOrTwo

\* datetime.now(tz=timezone(..., "X")) issued mode 2 with offset and name.
C19_Witness ==
    /\ DateTimeNowIssued
    /\ method.name = "datetime.now"
    /\ Len(effect.args) = 3
    /\ method.kwargs # <<>>

\* date.today() issued its call.
C19_TodayWitness ==
    /\ DateTimeNowIssued
    /\ method.name = "date.today"

\* ---------------------------------------------------------------------
\* VM machine: one binary operation on a stack of three values
\* ---------------------------------------------------------------------
\* Operands: the integers 0, 1, 2, a list referenced by the stack only, and
\* a list that a variable references as well; same: both operands are
\* references to one list.
Operands == {"0", "1", "2", "list", "held"}
ListOperands == {"list", "held"}
BinaryOps == {"+", "-", "*", "/", "//", "%", "** or pow()"}
VmOps == BinaryOps \cup {"&", "+=", "@"}
OperandInt(k) == CASE k = "0" -> 0 [] k = "1" -> 1 [] OTHER -> 2
ListRecord(k, refs) ==
    [rc |-> refs + (IF k = "held" THEN 1 ELSE 0), kind |-> "list", items |-> <<VInt(1)>>]
\* The heap and the stack: a value below the operands, lhs, rhs on top.
VmBefore(lhs, rhs, same) ==
    [NoVm EXCEPT
        !.heap = IF lhs \in ListOperands
                 THEN IF same THEN <<ListRecord(lhs, 2)>>
                      ELSE IF rhs \in ListOperands THEN <<ListRecord(lhs, 1), ListRecord(rhs, 1)>>
                      ELSE <<ListRecord(lhs, 1)>>
                 ELSE IF rhs \in ListOperands THEN <<ListRecord(rhs, 1)>> ELSE <<>>,
        !.stack = <<VInt(7),
                    IF lhs \in ListOperands THEN VRef(1) ELSE VInt(OperandInt(lhs)),
                    IF rhs \in ListOperands
                    THEN VRef(IF same \/ lhs \notin ListOperands THEN 1 ELSE 2)
                    ELSE VInt(OperandInt(rhs))>>]

InitM ==
    /\ x = NoValue
    /\ y = NoValue
    /\ exact = [x |-> Micros(0, 0, 0), y |-> Micros(0, 0, 0)]
    /\ res = NoRes
    /\ nops = 0
    /\ BridgeIdle
    /\ FrameIdle
    /\ PureIdle

\* One of the seven operations with a TypeError fallback.
VmBinaryOp ==
    /\ vmop.op = ""
    /\ \E op \in BinaryOps, lhs \in Operands, rhs \in Operands,
          same \in BOOLEAN :
        /\ same => (lhs \in ListOperands /\ rhs = lhs)
        /\ vmop' = [op |-> op, lhs |-> lhs, rhs |-> rhs, same |-> same,
                    before |-> VmBefore(lhs, rhs, same)]
        /\ vm' = VM_binary_op(VmBefore(lhs, rhs, same), op)
    /\ UNCHANGED <<yvars, ivars, ovars>>
    /\ UNCHANGED tvars
    /\ UNCHANGED bvars
    /\ UNCHANGED fvars

VmBinaryBitwise ==
    /\ vmop.op = ""
    /\ \E lhs \in Operands, rhs \in Operands, same \in BOOLEAN :
        /\ same => (lhs \in ListOperands /\ rhs = lhs)
        /\ vmop' = [op |-> "&", lhs |-> lhs, rhs |-> rhs, same |-> same,
                    before |-> VmBefore(lhs, rhs, same)]
        /\ vm' = VM_binary_bitwise(VmBefore(lhs, rhs, same))
    /\ UNCHANGED <<yvars, ivars, ovars>>
    /\ UNCHANGED tvars
    /\ UNCHANGED bvars
    /\ UNCHANGED fvars

VmInplaceAdd ==
    /\ vmop.op = ""
    /\ \E lhs \in Operands, rhs \in Operands, same \in BOOLEAN :
        /\ same => (lhs \in ListOperands /\ rhs = lhs)
        /\ vmop' = [op |-> "+=", lhs |-> lhs, rhs |-> rhs, same |-> same,
                    before |-> VmBefore(lhs, rhs, same)]
        /\ vm' = VM_inplace_add(VmBefore(lhs, rhs, same))
    /\ UNCHANGED <<yvars, ivars, ovars>>
    /\ UNCHANGED tvars
    /\ UNCHANGED bvars
    /\ UNCHANGED fvars

VmBinaryMatmul ==
    /\ vmop.op = ""
    /\ \E lhs \in Operands, rhs \in Operands, same \in BOOLEAN :
        /\ same => (lhs \in ListOperands /\ rhs = lhs)
        /\ vmop' = [op |-> "@", lhs |-> lhs, rhs |-> rhs, same |-> same,
                    before |-> VmBefore(lhs, rhs, same)]
        /\ vm' = VM_binary_matmul(VmBefore(lhs, rhs, same))
    /\ UNCHANGED <<yvars, ivars, ovars>>
    /\ UNCHANGED tvars
    /\ UNCHANGED bvars
    /\ UNCHANGED fvars

NextM == VmBinaryOp \/ VmBinaryBitwise \/ VmInplaceAdd \/ VmBinaryMatmul

SpecVm == InitM /\ [][NextM]_vars

VmDone == vmop.op # ""
\* References to record id held by the stack, and by variables.
StackRefs(this, id) == Cardinality({i \in 1..Len(this.stack) : this.stack[i] = VRef(id)})
Holders(id) ==
    IF id > Len(vmop.before.heap) THEN 0
    ELSE vmop.before.heap[id].rc - StackRefs(vmop.before, id)
\* Every record has exactly the references of its holders and of the stack,
\* and is freed when it has none.
CountsExact ==
    \A id \in 1..Len(vm.heap) :
        /\ vm.heap[id].rc = Holders(id) + StackRefs(vm, id)
        /\ (vm.heap[id].rc = 0) = (vm.heap[id].kind = "free")
\* The in-place addition mutated the left operand.
InPlace == vmop.op = "+=" /\ vmop.lhs \in ListOperands /\ vmop.rhs \in ListOperands

\* C25: every binary operation pops its two operands and nothing else,
\* releases each of them once on success, TypeError and arithmetic error,
\* and pushes one result on success only; inplace_add releases the right
\* operand once and, when the list was extended in place, pushes the left
\* operand back unreleased, otherwise releases it once.
C25_OperandsReleasedOnce ==
    VmDone =>
        /\ vm.rhs_drops = 1
        /\ vm.lhs_drops = (IF InPlace THEN 0 ELSE 1)
        /\ vm.pushes = (IF vm.ok THEN 1 ELSE 0)
        /\ Len(vm.stack) = (IF vm.ok THEN 2 ELSE 1)
        /\ vm.stack[1] = VInt(7)
        /\ InPlace => (vm.ok /\ vm.stack[2] = vmop.before.stack[2])
        /\ CountsExact

\* Two lists held by nothing but the stack were added: both are freed and
\* the new list is on the stack.
C25_Witness ==
    /\ VmDone
    /\ vmop.op = "+"
    /\ vmop.lhs = "list" /\ vmop.rhs = "list" /\ ~vmop.same
    /\ vm.ok
    /\ vm.heap[1].kind = "free" /\ vm.heap[2].kind = "free"
    /\ vm.stack[2] = VRef(3)

\* A list was extended by itself in place.
C25_InPlaceWitness ==
    /\ VmDone
    /\ InPlace /\ vmop.same
    /\ Len(vm.heap[1].items) = 2
    /\ vm.heap[1].rc = 1

====
